---- MODULE Spec2Model ----
(***************************************************************************)
(* Model of the BoolStreet trading backend: the Trade Executor             *)
(* (layers/execution.py execute_trade), the exchange adapter calls it      *)
(* makes (layers/brokers/hyperliquid_broker.py), the agent scheduler       *)
(* (layers/scheduler.py, apis/trading_models.py), the validation of the    *)
(* model output (call_llm_api), the tick pipeline (execute_trader), a      *)
(* user's exchange account over several ticks, the scripts and broker      *)
(* connections APIs (apis/scripts.py, apis/brokers.py), and the sizes and  *)
(* trigger prices the Hyperliquid adapter submits.                         *)
(*                                                                         *)
(* Numbers: uncertainty, thresholds and percentages are in thousandths     *)
(* (850 is 0.85, 50 is 5%); leverage and prices are integers; quantities    *)
(* and positions are in tenths of the asset's size step.                   *)
(***************************************************************************)
EXTENDS Integers, Sequences, FiniteSets, TLC

\* Python None (or an absent dictionary key read with .get()): of an optional
\* string, of an Optional[float], and of an optional dictionary
None == "None"
NoneF == -1
NoneD == <<>>

\* ---------------------------------------------------------------- inputs
Coins == {"BTC", "ETH"}
CoinOrder == <<"BTC", "ETH">>
Actions == {"long", "short", "hold", "close"}
Uncertainties == {500, 700, 850}
Thresholds == {700}
Quantities == {20}
DecisionPcts == {NoneF, 50}
UserPcts == {NoneF, 100}
FillPrices == {100}
InitialSizes == {-20, 0, 20}

Decisions ==
    [coin : Coins, decision : Actions, uncertainty : Uncertainties,
     quantity : Quantities, stop_loss_pct : DecisionPcts,
     take_profit_pct : DecisionPcts]

VARIABLES
    pc,                 \* position of the execute_trade invocation
    inv,                \* arguments of the invocation
    calls,              \* broker calls made by the invocation, in order
    result,             \* dictionary returned by the invocation
    saved,              \* Trade rows the invocation added
    raised,             \* an exception left execute_trade
    position_to_close,  \* local of the close branch
    position            \* signed position size per coin on the exchange

execVars == <<pc, inv, calls, result, saved, raised, position_to_close,
              position>>

VARIABLES
    exists,             \* user_models rows: the agent ids that have a row
    active,             \* UserModel.active of each agent
    frequency,          \* trading_frequency stored in UserModel.weights
    jobs,               \* job store of the trading scheduler
    running,            \* per agent, the positions of its running job instances
    rpc,                \* position of each HTTP request thread
    rarg,               \* locals of each HTTP request thread
    last_op             \* history: the sync or the tick exit that has just
                        \* completed, with the job store it found, or the
                        \* add_trader of a scheduled agent or remove_trader
                        \* of an unscheduled one that has just completed

schedVars == <<exists, active, frequency, jobs, running, rpc, rarg, last_op>>

VARIABLES
    tpc,                \* position of the execute_trader invocation
    trader,             \* the UserModel row and its environment
    net,                \* outside calls execute_trader made itself, in order
    api_logs,           \* APICallLog rows added by call_llm_api
    content,            \* decision_dict: the model output parsed as JSON
    parsed,             \* outcome of validating decision_dict
    tresult,            \* dictionary returned by execute_trader
    account_data        \* balance figures format_account_data_for_prompt
                        \* put in the prompt

traderVars == <<tpc, trader, net, api_logs, content, parsed, tresult,
                account_data>>

VARIABLES
    triggers,           \* open trigger orders on the exchange account
    ticks,              \* history: execute_trader invocations started
    cancels_ok,         \* history: every cancel_trigger_orders call so far
                        \* returned success
    longshort_ok        \* history: every invocation that has returned was a
                        \* successful long or short execution

exchVars == <<triggers, ticks, cancels_ok, longshort_ok>>

VARIABLES
    scripts,            \* user_scripts rows
    conns               \* broker_connections rows

apiVars == <<scripts, conns>>

vars == <<execVars, schedVars, traderVars, exchVars, apiVars>>

Abs(x) == IF x < 0 THEN -x ELSE x

\* Python truthiness of an Optional[float]
Truthy(x) == x # NoneF /\ x # 0

\* Python `a or b`
PyOr(a, b) == IF Truthy(a) THEN a ELSE b

\* dict.get(key, default) of an optional string
GetOr(v, default) == IF v = None THEN default ELSE v

\* ------------------------------------------------------- exchange adapter

\* Numbers of HyperliquidBroker. A size handed to the operators below is an
\* integer in tenths of the asset's size step (the step is 10^-szDecimals),
\* a price an integer in thousandths of the asset's price tick.
SizeStep == 10
PriceTick == 1000

\* Python round(x, n), n decimals being `step` units: the nearest multiple
\* of step, an exact tie going to the even multiple
py_round(x, step) ==
    LET q == x \div step
        r == x % step
    IN IF 2 * r < step THEN q * step
       ELSE IF 2 * r > step THEN (q + 1) * step
       ELSE IF q % 2 = 0 THEN q * step ELSE (q + 1) * step

\* HyperliquidBroker._get_min_size: 10^-szDecimals for every listed asset
\* and for the default, which is one size step of _get_size_decimals
get_min_size(coin) == SizeStep

\* the adjustment without the minimum
order_size_rounds_only(coin, quantity) == py_round(quantity, SizeStep)

\* HyperliquidBroker.execute_trade: quantity = round(quantity, sz_decimals),
\* raised to min_size when below it
order_size(coin, quantity) ==
    LET rounded == py_round(quantity, SizeStep)
    IN IF rounded < get_min_size(coin) THEN get_min_size(coin) ELSE rounded

\* float(f"{price:.5g}"): five significant digits
RECURSIVE Scale5(_)
Scale5(x) == IF x < 100000 THEN 1 ELSE 10 * Scale5(x \div 10)

sig5(x) == py_round(x, Scale5(x))

\* HyperliquidBroker._round_price: five significant digits, then the
\* asset's price decimals; round(price, 2) when the asset is not in the
\* SDK's mapping
round_price(mapped, price) ==
    IF mapped THEN py_round(sig5(price), PriceTick)
    ELSE py_round(price, PriceTick)

\* current_price * 0.995 and current_price * 1.005
adjusted_trigger(current_price, below) ==
    IF below THEN (current_price * 995) \div 1000
    ELSE (current_price * 1005) \div 1000

\* place_stop_loss: the trigger price after validation against the current
\* price
stop_loss_trigger(mapped, trigger_price, is_long, current_price) ==
    LET t == round_price(mapped, trigger_price)
    IN IF is_long /\ t >= current_price
       THEN round_price(mapped, adjusted_trigger(current_price, TRUE))
       ELSE IF ~is_long /\ t <= current_price
       THEN round_price(mapped, adjusted_trigger(current_price, FALSE))
       ELSE t

\* place_take_profit: the mirror validation
take_profit_trigger(mapped, trigger_price, is_long, current_price) ==
    LET t == round_price(mapped, trigger_price)
    IN IF is_long /\ t <= current_price
       THEN round_price(mapped, adjusted_trigger(current_price, FALSE))
       ELSE IF ~is_long /\ t >= current_price
       THEN round_price(mapped, adjusted_trigger(current_price, TRUE))
       ELSE t

\* What the adapter did with a trigger order request: the request it sent to
\* the exchange, if any, and the dictionary it returned
TriggerRequest(kind, mapped, quantity, trigger_price, is_long, current_price, up) ==
    LET sz == py_round(quantity, SizeStep)
        t  == round_price(mapped, trigger_price)
        px == IF kind = "sl"
              THEN stop_loss_trigger(mapped, trigger_price, is_long,
                                     current_price)
              ELSE take_profit_trigger(mapped, trigger_price, is_long,
                                       current_price)
    IN IF current_price <= 0
       THEN [submitted |-> FALSE, success |-> FALSE, is_buy |-> ~is_long,
             sz |-> sz, triggerPx |-> t, tpsl |-> kind]
       ELSE IF t <= 0
       THEN [submitted |-> FALSE, success |-> FALSE, is_buy |-> ~is_long,
             sz |-> sz, triggerPx |-> 0, tpsl |-> kind]
       ELSE [submitted |-> TRUE, success |-> (up = "ok"),
             is_buy |-> ~is_long, sz |-> sz, triggerPx |-> px, tpsl |-> kind]

\* HyperliquidBroker.execute_trade: no request without a current price;
\* otherwise market_open with the adjusted size
TradeRequest(coin, side, quantity, current_price, up) ==
    IF current_price <= 0
    THEN [submitted |-> FALSE, success |-> FALSE, is_buy |-> (side = "long"),
          sz |-> order_size(coin, quantity)]
    ELSE [submitted |-> TRUE, success |-> (up = "ok"),
          is_buy |-> (side = "long"), sz |-> order_size(coin, quantity)]

\* HyperliquidBroker.get_positions: one entry per non-zero position, the
\* quantity being the absolute size; an upstream failure yields [].
get_positions(pos, failed) ==
    IF failed THEN <<>>
    ELSE LET nonzero == SelectSeq(CoinOrder, LAMBDA c : pos[c] # 0)
         IN [i \in 1..Len(nonzero) |->
               [symbol |-> nonzero[i], quantity |-> Abs(pos[nonzero[i]])]]

\* Effect of a filled order on the exchange position
Fill(pos, symbol, side, quantity) ==
    [pos EXCEPT ![symbol] = @ + (IF side = "long" THEN quantity ELSE -quantity)]

\* Result dictionary of broker.execute_trade for each outcome
TradeOutcomes == {"ok", "ok0", "fail", "raise"}

BrokerTradeResult(outcome, price) ==
    CASE outcome = "ok"    -> [success |-> TRUE, order_id |-> "oid_primary",
                               price |-> price, error |-> None]
      [] outcome = "ok0"   -> [success |-> TRUE, order_id |-> "oid_primary",
                               price |-> 0, error |-> None]
      [] outcome = "fail"  -> [success |-> FALSE, order_id |-> None,
                               price |-> price, error |-> "exchange_error"]

\* cancel_trigger_orders: every open trigger order of the symbol is
\* cancelled ("ok"), the open orders could not be listed ("unlisted"), each
\* cancel request is rejected ("rejected"), or the call raises
CancelOutcomes == {"ok", "unlisted", "rejected", "raise"}

\* the trigger orders of a symbol that cancel_trigger_orders leaves open
OpenAfterCancel(open, symbol, outcome) ==
    IF outcome = "ok" THEN {o \in open : o.coin # symbol} ELSE open

\* cancel_trigger_orders' success field: True when no order was found, also
\* when the listing failed, and when at least one order was cancelled or no
\* cancel failed
cancel_success(open, symbol, outcome) ==
    LET trigger_orders == IF outcome = "unlisted" THEN {}
                          ELSE {o \in open : o.coin = symbol}
        cancelled_count == IF outcome = "ok" THEN Cardinality(trigger_orders)
                           ELSE 0
        errors == IF outcome = "rejected" THEN Cardinality(trigger_orders)
                  ELSE 0
    IN IF outcome = "raise" THEN FALSE
       ELSE IF trigger_orders = {} THEN TRUE
       ELSE cancelled_count > 0 \/ errors = 0

\* a trigger order resting on the exchange; tick and placed_by tell which
\* invocation of which agent placed it
TriggerOrder(kind, symbol) ==
    [kind |-> kind, coin |-> symbol, tick |-> ticks,
     placed_by |-> IF trader = NoneD THEN 0 ELSE trader.id]

\* Result dictionary of place_stop_loss / place_take_profit
TriggerOutcomes == {"ok", "fail", "raise"}

BrokerTriggerResult(outcome, oid) ==
    CASE outcome = "ok"   -> [success |-> TRUE, order_id |-> oid, error |-> None]
      [] outcome = "fail" -> [success |-> FALSE, order_id |-> None,
                              error |-> "trigger_rejected"]

Call(op, symbol, side, quantity, trigger, before, outcome) ==
    [op |-> op, symbol |-> symbol, side |-> side, quantity |-> quantity,
     trigger |-> trigger, pos_before |-> before, outcome |-> outcome]

\* ------------------------------------------------------------ execute_trade

\* the gate with close left out of it
Gate_skips_close(d, threshold) ==
    d.uncertainty > threshold /\ d.decision \notin {"hold", "close"}

\* the gate without its hold exception
Gate_ignores_action(d, threshold) == d.uncertainty > threshold

\* Uncertainty gate
Gate(d, threshold) ==
    d.uncertainty > threshold /\ d.decision \notin {"hold"}

\* the stop loss placed without a try/except of its own
Handler_sl_unguarded(stage) ==
    CASE stage \in {"get_positions", "close_trade"} -> "close"
      [] stage \in {"primary", "sl"} -> "outer"
      [] stage = "cancel"  -> "cancel"
      [] stage = "tp"      -> "tp"

\* The try/except that catches an exception raised by the broker call made
\* at a stage
Handler(stage) ==
    CASE stage \in {"get_positions", "close_trade"} -> "close"
      [] stage = "primary" -> "outer"
      [] stage = "cancel"  -> "cancel"
      [] stage = "sl"      -> "sl"
      [] stage = "tp"      -> "tp"

ExcText(stage) ==
    CASE stage = "get_positions" -> "exception in get_positions"
      [] stage = "close_trade"   -> "exception in execute_trade (close)"
      [] stage = "primary"       -> "exception in execute_trade"
      [] stage = "cancel"        -> "exception in cancel_trigger_orders"
      [] stage = "sl"            -> "exception in place_stop_loss"
      [] stage = "tp"            -> "exception in place_take_profit"

NoResult == NoneD

Trade(side, d, quantity, price, success, error, order_id, sl, tp) ==
    [side |-> side, coin |-> d.coin, quantity |-> quantity, price |-> price,
     uncertainty |-> d.uncertainty, success |-> success,
     error_message |-> error, order_id |-> order_id,
     stop_loss_order |-> sl, take_profit_order |-> tp]

Result(success, action, d, quantity, price, error, order_id) ==
    [success |-> success, action |-> action, coin |-> d.coin,
     quantity |-> quantity, price |-> price, error |-> error,
     order_id |-> order_id, stop_loss |-> NoneD, take_profit |-> NoneD]

SkipReason == "uncertainty_exceeds_threshold"

SkippedResult(d) == Result(TRUE, "skipped", d, d.quantity, 0, None, None)

SkippedTrade(d) ==
    Trade("skipped", d, d.quantity, 0, TRUE, SkipReason, None, NoneD, NoneD)

HoldResult(d) == Result(TRUE, "hold", d, 0, 0, None, None)

HoldTrade(d) == Trade("hold", d, 0, 0, TRUE, None, None, NoneD, NoneD)

\* The row written after the long/short path
MainTrade(d, res) ==
    Trade(d.decision, d, d.quantity, res.price, res.success, res.error,
          IF res.order_id # None THEN res.order_id ELSE None,
          res.stop_loss, res.take_profit)

\* The row written by the outer except
FailedTrade(d, msg) ==
    Trade(d.decision, d, d.quantity, 0, FALSE, msg, None, NoneD, NoneD)

FailedResult(d, msg) ==
    Result(FALSE, d.decision, d, d.quantity, 0, msg, None)

\* The value returned by the close branch's own except (nothing is saved)
CloseErrorResult(d, msg) == Result(FALSE, "close", d, 0, 0, msg, None)

NoPositionResult(d) == Result(TRUE, "close", d, 0, 0, None, None)

\* Rows a branch adds when trade saving is enabled
Rows(save_trade, row) == IF save_trade THEN <<row>> ELSE <<>>

\* Rows added by the close branch when there is no position to close
NoPositionRows(save_trade, d) == <<>>

\* Rows added by the close branch's own except
CloseErrorRows(save_trade, d, msg) == <<>>

\* first position whose symbol matches
FindPosition(positions, symbol) ==
    LET idx == {i \in 1..Len(positions) : positions[i].symbol = symbol}
    IN IF idx = {} THEN NoneD
       ELSE positions[CHOOSE i \in idx : \A j \in idx : i <= j]

close_side(close_quantity) == IF close_quantity > 0 THEN "short" ELSE "long"

\* the price check dropped
Protect_any_price(res) == res.success

\* primary trade succeeded with a non-zero price
Protect(res) == res.success /\ res.price > 0

\* the decision's percentage taken before the agent's
effective_stop_loss_pct_decision_first(a) ==
    PyOr(a.decision.stop_loss_pct, a.user_stop_loss_pct)

effective_stop_loss_pct(a) ==
    PyOr(a.user_stop_loss_pct, a.decision.stop_loss_pct)

effective_take_profit_pct(a) ==
    PyOr(a.user_take_profit_pct, a.decision.take_profit_pct)

NeedsCancel(a) ==
    Truthy(effective_stop_loss_pct(a)) \/ Truthy(effective_take_profit_pct(a))

PlacesSL(a) ==
    Truthy(effective_stop_loss_pct(a)) /\ effective_stop_loss_pct(a) > 0

PlacesTP(a) ==
    Truthy(effective_take_profit_pct(a)) /\ effective_take_profit_pct(a) > 0

sl_trigger_price(entry_price, pct, is_long) ==
    IF is_long THEN (entry_price * (1000 - pct)) \div 1000
    ELSE (entry_price * (1000 + pct)) \div 1000

tp_trigger_price(entry_price, pct, is_long) ==
    IF is_long THEN (entry_price * (1000 + pct)) \div 1000
    ELSE (entry_price * (1000 - pct)) \div 1000

\* Stage that follows each stage of the long/short path
AfterPrimary(a, res) ==
    IF Protect(res) /\ NeedsCancel(a) THEN "cancel" ELSE "save"

AfterCancel(a) ==
    IF PlacesSL(a) THEN "sl" ELSE IF PlacesTP(a) THEN "tp" ELSE "save"

AfterSL(a) == IF PlacesTP(a) THEN "tp" ELSE "save"

\* return from execute_trade
Return(res, rows) ==
    /\ pc' = "done"
    /\ result' = res
    /\ saved' = rows
    /\ raised' = FALSE

\* an exception that no handler catches leaves execute_trade
Propagate ==
    /\ pc' = "done"
    /\ result' = NoResult
    /\ saved' = <<>>
    /\ raised' = TRUE

\* an exception raised at a stage, caught by the close branch's except, by
\* the outer except, or by nothing
OnRaise(stage) ==
    LET d == inv.decision
        msg == ExcText(stage)
    IN CASE Handler(stage) = "close" ->
              Return(CloseErrorResult(d, msg),
                     CloseErrorRows(inv.save_trade, d, msg))
         [] Handler(stage) = "outer" ->
              Return(FailedResult(d, msg),
                     Rows(inv.save_trade, FailedTrade(d, msg)))
         [] OTHER -> Propagate

\* go on to the next stage of the long/short path, saving the row and
\* returning when nothing is left to place
Continue(stage, res) ==
    IF stage = "save"
    THEN Return(res, Rows(inv.save_trade, MainTrade(inv.decision, res)))
    ELSE /\ pc' = stage
         /\ result' = res
         /\ UNCHANGED <<saved, raised>>

\* execute_trade up to its first broker call
ExecuteTrade(d, save_trade, threshold, usl, utp) ==
    /\ pc = "idle"
    /\ inv' = [decision |-> d, save_trade |-> save_trade,
               uncertainty_threshold |-> threshold,
               user_stop_loss_pct |-> usl, user_take_profit_pct |-> utp]
    /\ calls' = <<>>
    /\ position_to_close' = NoneD
    /\ IF Gate(d, threshold)
       THEN Return(SkippedResult(d), Rows(save_trade, SkippedTrade(d)))
       ELSE IF d.decision = "hold"
       THEN Return(HoldResult(d), Rows(save_trade, HoldTrade(d)))
       ELSE /\ pc' = IF d.decision = "close" THEN "get_positions" ELSE "primary"
            /\ result' = NoResult
            /\ saved' = <<>>
            /\ raised' = FALSE
    /\ UNCHANGED <<position, schedVars, traderVars, exchVars, apiVars>>

\* close branch: look up the open position
GetPositions(outcome) ==
    /\ pc = "get_positions"
    /\ calls' = Append(calls, Call("get_positions", None, None, NoneF, NoneF,
                                   position, outcome))
    /\ IF outcome = "raise"
       THEN OnRaise("get_positions") /\ UNCHANGED position_to_close
       ELSE LET positions == get_positions(position, outcome = "error")
                found == FindPosition(positions, inv.decision.coin)
            IN /\ position_to_close' = found
               /\ IF found = NoneD
                  THEN Return(NoPositionResult(inv.decision),
                              NoPositionRows(inv.save_trade, inv.decision))
                  ELSE /\ pc' = "close_trade"
                       /\ UNCHANGED <<result, saved, raised>>
    /\ UNCHANGED <<inv, position, schedVars, traderVars, exchVars, apiVars>>

\* the symbol's trigger orders cancelled with the close
OpenAfterClose_cancels(open, symbol) == {t \in open : t.coin # symbol}

\* trigger orders open after the close branch: it calls get_positions and
\* execute_trade only
OpenAfterClose(open, symbol) == open

\* close branch: trade the opposite direction and save the close row
CloseTrade(outcome, price) ==
    /\ pc = "close_trade"
    /\ LET d == inv.decision
           close_quantity == position_to_close.quantity
           side == close_side(close_quantity)
           qty == Abs(close_quantity)
       IN /\ calls' = Append(calls, Call("execute_trade", d.coin, side, qty,
                                         NoneF, position, outcome))
          /\ IF outcome = "raise"
             THEN OnRaise("close_trade") /\ UNCHANGED position
             ELSE LET tr == BrokerTradeResult(outcome, price)
                      res == [Result(tr.success, "close", d, qty, tr.price,
                                     IF tr.success THEN None
                                     ELSE GetOr(tr.error, "Unknown error"),
                                     tr.order_id)
                              EXCEPT !.stop_loss = NoneD]
                  IN /\ IF tr.success
                        THEN position' = Fill(position, d.coin, side,
                                              order_size(d.coin, qty))
                        ELSE UNCHANGED position
                     /\ Return(res, Rows(inv.save_trade,
                               Trade("close", d, qty, res.price, res.success,
                                     res.error, res.order_id, NoneD, NoneD)))
    /\ triggers' = OpenAfterClose(triggers, inv.decision.coin)
    /\ UNCHANGED <<inv, position_to_close, ticks, cancels_ok, longshort_ok,
                   schedVars, traderVars, apiVars>>

\* the order scaled by the decision's position_pct when it names one
order_quantity_capped(d) ==
    IF d.position_pct # NoneF THEN (d.quantity * d.position_pct) \div 1000
    ELSE d.quantity

\* quantity of broker.execute_trade for a long/short
order_quantity(d) == d.quantity

\* long/short: the primary trade
Primary(outcome, price) ==
    /\ pc = "primary"
    /\ LET d == inv.decision
       IN /\ calls' = Append(calls, Call("execute_trade", d.coin, d.decision,
                                         order_quantity(d), NoneF, position,
                                         outcome))
          /\ IF outcome = "raise"
             THEN OnRaise("primary") /\ UNCHANGED position
             ELSE LET tr == BrokerTradeResult(outcome, price)
                      res == Result(tr.success, d.decision, d, d.quantity,
                                    tr.price,
                                    IF tr.success THEN None
                                    ELSE GetOr(tr.error, "Unknown error"),
                                    tr.order_id)
                  IN /\ IF tr.success
                        THEN position' =
                               Fill(position, d.coin, d.decision,
                                    order_size(d.coin, order_quantity(d)))
                        ELSE UNCHANGED position
                     /\ Continue(AfterPrimary(inv, res), res)
    /\ UNCHANGED <<inv, position_to_close, schedVars, traderVars, exchVars,
                   apiVars>>

\* long/short: cancel the symbol's existing trigger orders (best effort)
CancelTriggers(outcome) ==
    /\ pc = "cancel"
    /\ calls' = Append(calls, Call("cancel_trigger_orders", inv.decision.coin,
                                   None, NoneF, NoneF, position, outcome))
    /\ IF outcome = "raise" /\ Handler("cancel") # "cancel"
       THEN OnRaise("cancel")
       ELSE Continue(AfterCancel(inv), result)
    /\ triggers' = OpenAfterCancel(triggers, inv.decision.coin, outcome)
    /\ cancels_ok' = (cancels_ok /\ cancel_success(triggers, inv.decision.coin,
                                                    outcome))
    /\ UNCHANGED <<inv, position, position_to_close, ticks, longshort_ok,
                   schedVars, traderVars, apiVars>>

\* the trigger orders sized with what the adapter submitted
protective_quantity_as_submitted(d) == order_size(d.coin, d.quantity)

\* quantity of place_stop_loss and place_take_profit
protective_quantity(d) == d.quantity

\* long/short: place the stop loss
PlaceStopLoss(outcome) ==
    /\ pc = "sl"
    /\ LET d == inv.decision
           is_long == d.decision = "long"
           pct == effective_stop_loss_pct(inv)
           trigger == sl_trigger_price(result.price, pct, is_long)
       IN /\ calls' = Append(calls, Call("place_stop_loss", d.coin, d.decision,
                                         protective_quantity(d), trigger,
                                         position, outcome))
          /\ IF outcome = "raise"
             THEN IF Handler("sl") = "sl"
                  THEN Continue(AfterSL(inv),
                         [result EXCEPT !.stop_loss =
                            [success |-> FALSE, trigger_price |-> NoneF,
                             percentage |-> NoneF, order_id |-> None,
                             error |-> ExcText("sl")]])
                  ELSE OnRaise("sl")
             ELSE LET sl == BrokerTriggerResult(outcome, "oid_sl")
                  IN Continue(AfterSL(inv),
                       [result EXCEPT !.stop_loss =
                          [success |-> sl.success, trigger_price |-> trigger,
                           percentage |-> pct, order_id |-> sl.order_id,
                           error |-> sl.error]])
    /\ triggers' = IF outcome = "ok"
                   THEN triggers \cup {TriggerOrder("sl", inv.decision.coin)}
                   ELSE triggers
    /\ UNCHANGED <<inv, position, position_to_close, ticks, cancels_ok,
                   longshort_ok, schedVars, traderVars, apiVars>>

\* long/short: place the take profit
PlaceTakeProfit(outcome) ==
    /\ pc = "tp"
    /\ LET d == inv.decision
           is_long == d.decision = "long"
           pct == effective_take_profit_pct(inv)
           trigger == tp_trigger_price(result.price, pct, is_long)
       IN /\ calls' = Append(calls, Call("place_take_profit", d.coin, d.decision,
                                         protective_quantity(d), trigger,
                                         position, outcome))
          /\ IF outcome = "raise"
             THEN IF Handler("tp") = "tp"
                  THEN Continue("save",
                         [result EXCEPT !.take_profit =
                            [success |-> FALSE, trigger_price |-> NoneF,
                             percentage |-> NoneF, order_id |-> None,
                             error |-> ExcText("tp")]])
                  ELSE OnRaise("tp")
             ELSE LET tp == BrokerTriggerResult(outcome, "oid_tp")
                  IN Continue("save",
                       [result EXCEPT !.take_profit =
                          [success |-> tp.success, trigger_price |-> trigger,
                           percentage |-> pct, order_id |-> tp.order_id,
                           error |-> tp.error]])
    /\ triggers' = IF outcome = "ok"
                   THEN triggers \cup {TriggerOrder("tp", inv.decision.coin)}
                   ELSE triggers
    /\ UNCHANGED <<inv, position, position_to_close, ticks, cancels_ok,
                   longshort_ok, schedVars, traderVars, apiVars>>

\* ------------------------------------------------------------ scheduler

\* ids of user_scripts rows
ScriptIds == {1, 2}

MaxAgents == 2

AgentIds == 1..MaxAgents

\* two request threads: enough for two requests to overlap
Requests == {1, 2}

\* frequency strings a create request can carry
FrequencyInputs == {"1Hour", "5min", "2hour"}

\* those used where requests run concurrently
ConcFrequencyInputs == {"1Hour", "2hour"}

\* str.lower().strip() on the strings above
lower(s) == IF s = "1Hour" THEN "1hour" ELSE s

\* interval of each supported frequency, in minutes
FREQUENCY_CONFIG ==
    ("1min" :> 1) @@ ("5min" :> 5) @@ ("15min" :> 15) @@ ("1hour" :> 60) @@
    ("4hour" :> 240) @@ ("1day" :> 1440)

SUPPORTED_FREQUENCIES == {"1min", "5min", "15min", "1hour", "4hour", "1day"}

is_valid_frequency(f) == lower(f) \in SUPPORTED_FREQUENCIES

\* the lookup without lower-casing
parse_frequency_no_lower(f) ==
    IF f \in DOMAIN FREQUENCY_CONFIG THEN FREQUENCY_CONFIG[f] ELSE NoneF

\* interval configuration, or NoneF for an unknown frequency
parse_frequency(f) ==
    IF lower(f) \in DOMAIN FREQUENCY_CONFIG THEN FREQUENCY_CONFIG[lower(f)]
    ELSE NoneF

get_job_id(trader_id) == <<"trader_", trader_id>>

\* two instances of a job allowed at a time
max_instances_two == 1 + 1

max_instances == 1

\* BackgroundScheduler.add_job(..., replace_existing=True)
add_job(J, job) == {j \in J : j.id # job.id} \cup {job}

\* the job left in the store
remove_trader_keeps_job(J, trader_id) == J

\* TradingScheduler.remove_trader: remove the job if present
remove_trader(J, trader_id) == {j \in J : j.id # get_job_id(trader_id)}

\* the value remove_trader returns: True whether or not the job was there
remove_trader_result(J, trader_id) == TRUE

\* the new job put next to the old one
add_trader_appends(J, trader_id, trading_frequency) ==
    LET interval_config == parse_frequency(trading_frequency)
    IN IF interval_config = NoneF THEN J
       ELSE J \cup {[id |-> get_job_id(trader_id),
                     interval |-> interval_config,
                     max_instances |-> max_instances]}

\* the frequency parsed before the existing job is touched
add_trader_parses_first(J, trader_id, trading_frequency) ==
    LET interval_config == parse_frequency(trading_frequency)
    IN IF interval_config = NoneF THEN J
       ELSE add_job(J, [id |-> get_job_id(trader_id),
                        interval |-> interval_config,
                        max_instances |-> max_instances])

\* the value add_trader returns: False for an unknown frequency
add_trader_result(J, trader_id, trading_frequency) ==
    parse_frequency(trading_frequency) # NoneF

\* TradingScheduler.add_trader: the existing job is removed first, then the
\* new one is added unless the frequency is unknown
add_trader(J, trader_id, trading_frequency) ==
    LET J1 == remove_trader(J, trader_id)
        interval_config == parse_frequency(trading_frequency)
    IN IF interval_config = NoneF THEN J1
       ELSE add_job(J1, [id |-> get_job_id(trader_id),
                         interval |-> interval_config,
                         max_instances |-> max_instances])

RECURSIVE AddTraders(_, _, _)
AddTraders(J, ids, freq) ==
    IF ids = {} THEN J
    ELSE LET id == CHOOSE x \in ids : TRUE
         IN AddTraders(add_trader(J, id, freq[id]), ids \ {id}, freq)

\* the sync without its removal loop
sync_active_traders_add_only(J, ex, act, freq) ==
    LET active_traders == {id \in AgentIds : ex[id] /\ act[id]}
        scheduled_job_ids == {j.id : j \in J}
        missing == {id \in active_traders : get_job_id(id) \notin scheduled_job_ids}
    IN AddTraders(J, missing, freq)

\* TradingScheduler.sync_active_traders
sync_active_traders(J, ex, act, freq) ==
    LET active_traders == {id \in AgentIds : ex[id] /\ act[id]}
        scheduled_job_ids == {j.id : j \in J}
        active_trader_job_ids == {get_job_id(id) : id \in active_traders}
        missing == {id \in active_traders : get_job_id(id) \notin scheduled_job_ids}
        J1 == AddTraders(J, missing, freq)
    IN {j \in J1 : ~(j.id \in scheduled_job_ids
                     /\ j.id \notin active_trader_job_ids)}

HasJob(id) == \E j \in jobs : j.id = get_job_id(id)

\* id given to a new user_models row (autoincrement primary key)
NewId ==
    LET used == {id \in AgentIds : exists[id]}
    IN IF used = {} THEN 1
       ELSE 1 + CHOOSE m \in used : \A x \in used : x <= m

\* no request and no tick is in progress
Quiescent ==
    /\ \A r \in Requests : rpc[r] = "idle"
    /\ \A id \in AgentIds : running[id] = <<>>

\* the request threads are interchangeable: a new request takes the first
\* idle one
FreeThread ==
    LET idle == {r \in Requests : rpc[r] = "idle"}
    IN IF idle = {} THEN 0 ELSE CHOOSE r \in idle : \A x \in idle : r <= x

\* POST /create: the row is stored inactive; no scheduler call
CreateTrader(trading_frequency) ==
    /\ NewId \in AgentIds
    /\ is_valid_frequency(trading_frequency)
    /\ exists' = [exists EXCEPT ![NewId] = TRUE]
    /\ active' = [active EXCEPT ![NewId] = FALSE]
    /\ frequency' = [frequency EXCEPT ![NewId] = trading_frequency]
    /\ last_op' = NoneD
    /\ UNCHANGED <<jobs, running, rpc, rarg, execVars,
                   traderVars, exchVars, apiVars>>

\* POST /<id>/activate, up to session.commit()
ActivateCommit(r, model_id, new_active_state, has_connection) ==
    /\ r = FreeThread
    /\ exists[model_id]
    /\ new_active_state => has_connection
    /\ active' = [active EXCEPT ![model_id] = new_active_state]
    /\ rarg' = [rarg EXCEPT ![r] = [model_id |-> model_id,
                                    new_active_state |-> new_active_state,
                                    trading_frequency |-> frequency[model_id]]]
    /\ rpc' = [rpc EXCEPT ![r] = "sync with scheduler"]
    /\ last_op' = NoneD
    /\ UNCHANGED <<exists, frequency, jobs, running, execVars,
                   traderVars, exchVars, apiVars>>

\* POST /<id>/activate, the scheduler call after the commit
ActivateSchedule(r) ==
    /\ rpc[r] = "sync with scheduler"
    /\ jobs' = IF rarg[r].new_active_state
               THEN add_trader(jobs, rarg[r].model_id, rarg[r].trading_frequency)
               ELSE remove_trader(jobs, rarg[r].model_id)
    /\ rpc' = [rpc EXCEPT ![r] = "idle"]
    /\ rarg' = [rarg EXCEPT ![r] = NoneD]
    /\ last_op' =
          CASE rarg[r].new_active_state /\ HasJob(rarg[r].model_id) ->
                 [op |-> "add_trader again", trader_id |-> rarg[r].model_id,
                  returned |-> add_trader_result(jobs, rarg[r].model_id,
                                                 rarg[r].trading_frequency)]
            [] ~rarg[r].new_active_state /\ ~HasJob(rarg[r].model_id) ->
                 [op |-> "remove_trader again", trader_id |-> rarg[r].model_id,
                  returned |-> remove_trader_result(jobs, rarg[r].model_id)]
            [] OTHER -> NoneD
    /\ UNCHANGED <<exists, active, frequency, running, execVars,
                   traderVars, exchVars, apiVars>>

\* DELETE /<id>: remove the job, then delete the row
DeleteTrader(model_id) ==
    /\ exists[model_id]
    /\ jobs' = remove_trader(jobs, model_id)
    /\ exists' = [exists EXCEPT ![model_id] = FALSE]
    /\ active' = [active EXCEPT ![model_id] = FALSE]
    /\ frequency' = [frequency EXCEPT ![model_id] = None]
    /\ last_op' = NoneD
    /\ UNCHANGED <<running, rpc, rarg, execVars,
                   traderVars, exchVars, apiVars>>

SyncActiveTraders ==
    /\ jobs' = sync_active_traders(jobs, exists, active, frequency)
    /\ last_op' = [op |-> "sync", before |-> jobs]
    /\ UNCHANGED <<exists, active, frequency, running, rpc, rarg, execVars,
                   traderVars, exchVars, apiVars>>

\* the scheduler submits a due job unless max_instances instances of the
\* job id are still running
TickStart(trader_id) ==
    /\ \E j \in jobs : /\ j.id = get_job_id(trader_id)
                        /\ Len(running[trader_id]) < j.max_instances
    /\ running' = [running EXCEPT ![trader_id] = Append(@, "query")]
    /\ last_op' = NoneD
    /\ UNCHANGED <<exists, active, frequency, jobs, rpc, rarg, execVars,
                   traderVars, exchVars, apiVars>>

\* _execute_trader_job: query the trader; remove the job and return when it
\* is missing or inactive, otherwise execute it
TickQuery(trader_id, i) ==
    /\ i \in 1..Len(running[trader_id])
    /\ running[trader_id][i] = "query"
    /\ IF exists[trader_id] /\ active[trader_id]
       THEN /\ running' = [running EXCEPT ![trader_id][i] = "execute_trader"]
            /\ last_op' = NoneD
            /\ UNCHANGED jobs
       ELSE /\ running' = [running EXCEPT ![trader_id] =
                              SubSeq(@, 1, i - 1) \o SubSeq(@, i + 1, Len(@))]
            /\ jobs' = remove_trader(jobs, trader_id)
            /\ last_op' = [op |-> "tick_exit", trader_id |-> trader_id,
                           before |-> jobs]
    /\ UNCHANGED <<exists, active, frequency, rpc, rarg, execVars,
                   traderVars, exchVars, apiVars>>

\* the job instance returns
TickEnd(trader_id, i) ==
    /\ i \in 1..Len(running[trader_id])
    /\ running[trader_id][i] = "execute_trader"
    /\ running' = [running EXCEPT ![trader_id] =
                      SubSeq(@, 1, i - 1) \o SubSeq(@, i + 1, Len(@))]
    /\ last_op' = NoneD
    /\ UNCHANGED <<exists, active, frequency, jobs, rpc, rarg, execVars,
                   traderVars, exchVars, apiVars>>

\* the condition under which trigger_trader_now runs the pipeline: the row
\* is found, and a running tick of the same agent does not hold it back
trigger_runs_unless_running(trader_id) ==
    exists[trader_id] /\ running[trader_id] = <<>>

\* the condition under which trigger_trader_now runs the pipeline: the
\* query by id finds the row
trigger_runs(trader_id) == exists[trader_id]

\* POST /<id>/run: the endpoint finds the agent and a connection, then
\* trigger_trader_now queries the agent by id and calls execute_trader in
\* the request thread
TriggerTraderNow(r, model_id, has_connection) ==
    /\ r = FreeThread
    /\ exists[model_id]
    /\ has_connection
    /\ trigger_runs(model_id)
    /\ rpc' = [rpc EXCEPT ![r] = "execute_trader"]
    /\ rarg' = [rarg EXCEPT ![r] = [model_id |-> model_id]]
    /\ last_op' = NoneD
    /\ UNCHANGED <<exists, active, frequency, jobs, running, execVars,
                   traderVars, exchVars, apiVars>>

\* execute_trader returns to trigger_trader_now, which returns its result
TriggerReturn(r) ==
    /\ rpc[r] = "execute_trader"
    /\ rpc' = [rpc EXCEPT ![r] = "idle"]
    /\ rarg' = [rarg EXCEPT ![r] = NoneD]
    /\ last_op' = NoneD
    /\ UNCHANGED <<exists, active, frequency, jobs, running, execVars,
                   traderVars, exchVars, apiVars>>

InitExec ==
    /\ pc = "idle"
    /\ inv = NoneD
    /\ calls = <<>>
    /\ result = NoResult
    /\ saved = <<>>
    /\ raised = FALSE
    /\ position_to_close = NoneD

InitSched ==
    /\ exists = [id \in AgentIds |-> FALSE]
    /\ active = [id \in AgentIds |-> FALSE]
    /\ frequency = [id \in AgentIds |-> None]
    /\ jobs = {}
    /\ running = [id \in AgentIds |-> <<>>]
    /\ rpc = [r \in Requests |-> "idle"]
    /\ rarg = [r \in Requests |-> NoneD]
    /\ last_op = NoneD

InitTrader ==
    /\ tpc = "idle"
    /\ trader = NoneD
    /\ net = <<>>
    /\ api_logs = <<>>
    /\ content = NoneD
    /\ parsed = NoneD
    /\ tresult = NoneD
    /\ account_data = NoneD

\* an exchange account without trigger orders
InitExch ==
    /\ triggers = {}
    /\ ticks = 0
    /\ cancels_ok = TRUE
    /\ longshort_ok = TRUE

\* no script and no broker connection stored
InitApi ==
    /\ scripts = [i \in ScriptIds |-> NoneD]
    /\ conns = <<>>

\* one execute_trade invocation against an account in any position
Init ==
    /\ InitExec
    /\ InitSched
    /\ InitTrader
    /\ InitExch
    /\ InitApi
    /\ position \in [Coins -> InitialSizes]

Next ==
    \/ \E d \in Decisions, save_trade \in BOOLEAN, threshold \in Thresholds,
          usl \in UserPcts, utp \in UserPcts :
          ExecuteTrade(d, save_trade, threshold, usl, utp)
    \/ \E outcome \in {"ok", "error", "raise"} : GetPositions(outcome)
    \/ \E outcome \in TradeOutcomes, price \in FillPrices :
          CloseTrade(outcome, price)
    \/ \E outcome \in TradeOutcomes, price \in FillPrices :
          Primary(outcome, price)
    \/ \E outcome \in CancelOutcomes : CancelTriggers(outcome)
    \/ \E outcome \in TriggerOutcomes : PlaceStopLoss(outcome)
    \/ \E outcome \in TriggerOutcomes : PlaceTakeProfit(outcome)

Spec == Init /\ [][Next]_vars

\* the scheduler and the agents API, from an empty database
SchedInit ==
    /\ InitExec
    /\ InitSched
    /\ InitTrader
    /\ InitExch
    /\ InitApi
    /\ position = [c \in Coins |-> 0]

\* requests, syncs and ticks run one after the other
SeqNext ==
    \/ Quiescent /\ \E f \in FrequencyInputs : CreateTrader(f)
    \/ Quiescent /\ \E r \in Requests, id \in AgentIds, a \in BOOLEAN, c \in BOOLEAN :
                       ActivateCommit(r, id, a, c)
    \/ \E r \in Requests : ActivateSchedule(r)
    \/ Quiescent /\ \E id \in AgentIds : DeleteTrader(id)
    \/ Quiescent /\ SyncActiveTraders
    \/ Quiescent /\ \E id \in AgentIds : TickStart(id)
    \/ \E id \in AgentIds, i \in 1..max_instances : TickQuery(id, i)
    \/ \E id \in AgentIds, i \in 1..max_instances : TickEnd(id, i)

SeqSpec == SchedInit /\ [][SeqNext]_vars

\* requests and ticks run concurrently, interleaved at their steps
ConcNext ==
    \/ \E f \in ConcFrequencyInputs : CreateTrader(f)
    \/ \E r \in Requests, id \in AgentIds, a \in BOOLEAN, c \in BOOLEAN :
          ActivateCommit(r, id, a, c)
    \/ \E r \in Requests : ActivateSchedule(r)
    \/ \E id \in AgentIds : DeleteTrader(id)
    \/ SyncActiveTraders
    \/ \E id \in AgentIds : TickStart(id)
    \/ \E id \in AgentIds, i \in 1..max_instances : TickQuery(id, i)
    \/ \E id \in AgentIds, i \in 1..max_instances : TickEnd(id, i)

ConcSpec == SchedInit /\ [][ConcNext]_vars

\* scheduled ticks and manual runs of the agents, interleaved at their steps
ManualNext ==
    \/ \E f \in ConcFrequencyInputs : CreateTrader(f)
    \/ \E r \in Requests, id \in AgentIds, a \in BOOLEAN, c \in BOOLEAN :
          ActivateCommit(r, id, a, c)
    \/ \E r \in Requests : ActivateSchedule(r)
    \/ \E id \in AgentIds : TickStart(id)
    \/ \E id \in AgentIds, i \in 1..max_instances : TickQuery(id, i)
    \/ \E id \in AgentIds, i \in 1..max_instances : TickEnd(id, i)
    \/ \E r \in Requests, id \in AgentIds, c \in BOOLEAN :
          TriggerTraderNow(r, id, c)
    \/ \E r \in Requests : TriggerReturn(r)

ManualSpec == SchedInit /\ [][ManualNext]_vars

\* ---------------------------------------------------- call_llm_api: parsing

\* float('nan'): a float that compares false with everything
NaN == 999999

\* Python <, >, min, max and abs on floats
Lt(a, b) == a # NaN /\ b # NaN /\ a < b

py_min(a, b) == IF Lt(b, a) THEN b ELSE a

py_max(a, b) == IF Lt(a, b) THEN b ELSE a

py_abs(x) == IF x = NaN THEN NaN ELSE Abs(x)

\* max(lo, min(hi, x))
clamp(lo, hi, x) == py_max(lo, py_min(hi, x))

\* A value of the JSON object: the key is absent, null, a number (or a string
\* float() accepts, 'nan' included), or something float() rejects
Absent == [k |-> "absent", v |-> 0]
JNull == [k |-> "null", v |-> 0]
Junk == [k |-> "junk", v |-> 0]
Num(n) == [k |-> "num", v |-> n]

\* A string value of the JSON object
Str(x) == [k |-> "str", s |-> x]
AbsentS == [k |-> "absent", s |-> ""]
JNullS == [k |-> "null", s |-> ""]

\* str.upper() and str.lower() on the strings of the inputs
upper(x) == IF x = "btc" THEN "BTC" ELSE x

lower_decision(x) ==
    CASE x = "LONG" -> "long"
      [] x = "Short" -> "short"
      [] OTHER -> x

\* decision_dict.get(key, default) followed by float()
get_float(raw, default) ==
    CASE raw.k = "absent" -> [raises |-> FALSE, v |-> default]
      [] raw.k = "num"    -> [raises |-> FALSE, v |-> raw.v]
      [] OTHER            -> [raises |-> TRUE, v |-> 0]

\* an optional field: None when absent or null, else float() and the clamp
get_optional(raw, lo, hi) ==
    CASE raw.k \in {"absent", "null"} -> [raises |-> FALSE, v |-> NoneF]
      [] raw.k = "num" -> [raises |-> FALSE, v |-> clamp(lo, hi, raw.v)]
      [] OTHER         -> [raises |-> TRUE, v |-> 0]

\* decision_dict.get(key, default) followed by a str method
get_str(raw, default) ==
    CASE raw.k = "absent" -> [raises |-> FALSE, s |-> default]
      [] raw.k = "str"    -> [raises |-> FALSE, s |-> raw.s]
      [] OTHER            -> [raises |-> TRUE, s |-> ""]

ParseError == [ok |-> FALSE, error |-> "exception in validation"]

\* Validation of decision_dict into a TraderDecision
parse_decision(dd) ==
    LET coin == get_str(dd.coin, "")
        decision == get_str(dd.decision, "hold")
        uncertainty == get_float(dd.uncertainty, 500)
        quantity == get_float(dd.quantity, 0)
        position_pct == get_optional(dd.position_pct, 0, 1000)
        leverage == get_optional(dd.leverage, 1, 50)
        stop_loss_pct == get_optional(dd.stop_loss_pct, 1, 500)
        take_profit_pct == get_optional(dd.take_profit_pct, 1, 2000)
    IN IF \/ coin.raises \/ decision.raises \/ uncertainty.raises
          \/ quantity.raises \/ position_pct.raises \/ leverage.raises
          \/ stop_loss_pct.raises \/ take_profit_pct.raises
       THEN ParseError
       ELSE [ok |-> TRUE,
             decision |->
               [coin |-> upper(coin.s),
                decision |-> IF lower_decision(decision.s) \in Actions
                             THEN lower_decision(decision.s) ELSE "hold",
                uncertainty |-> clamp(0, 1000, uncertainty.v),
                quantity |-> py_abs(quantity.v),
                position_pct |-> position_pct.v,
                leverage |-> leverage.v,
                stop_loss_pct |-> stop_loss_pct.v,
                take_profit_pct |-> take_profit_pct.v]]

\* model outputs that parse as JSON objects
RawCoins == {Str("btc")}
RawActions == {AbsentS, JNullS, Str("LONG"), Str("close"), Str("buy")}
RawUncertainties == {Absent, Num(1700), Num(-300), Num(500), Num(NaN), Junk}
RawQuantities == {Absent, JNull, Num(20), Num(-20), Num(NaN)}
RawPositionPcts == {Absent, Num(1500)}
RawLeverages == {JNull, Num(0), Num(100)}
RawStopLossPcts == {Absent, Num(0), Num(900)}
RawTakeProfitPcts == {Absent, Num(5000)}

RawDecisions ==
    [coin : RawCoins, decision : RawActions, uncertainty : RawUncertainties,
     quantity : RawQuantities, position_pct : RawPositionPcts,
     leverage : RawLeverages, stop_loss_pct : RawStopLossPcts,
     take_profit_pct : RawTakeProfitPcts]

\* the validation of one parsed model output
ParseDecision ==
    /\ content # NoneD
    /\ parsed = NoneD
    /\ tpc = "idle"
    /\ parsed' = parse_decision(content)
    /\ UNCHANGED <<tpc, trader, net, api_logs, content, tresult, account_data,
                   execVars, schedVars, exchVars, apiVars>>

ParseInit ==
    /\ InitExec
    /\ InitSched
    /\ position = [c \in Coins |-> 0]
    /\ tpc = "idle"
    /\ trader = NoneD
    /\ net = <<>>
    /\ api_logs = <<>>
    /\ content \in RawDecisions
    /\ parsed = NoneD
    /\ tresult = NoneD
    /\ account_data = NoneD
    /\ InitExch
    /\ InitApi

ParseNext == ParseDecision

ParseSpec == ParseInit /\ [][ParseNext]_vars

\* ------------------------------------------------------------ execute_trader

\* state of the user's broker_connections row, as create_broker sees it
Connections == {"none", "hyperliquid", "hyperliquid_no_key", "unsupported"}

\* UserModel.balance, the balance stored with the agent
StoredBalances == {500}

\* the trader row and what surrounds the invocation
TraderConfigs ==
    [prompt_template : {"", "prompt"}, tickers : {<<>>, <<"BTC">>},
     connection : Connections, uncertainty_threshold : {NoneF},
     stop_loss_pct : UserPcts, take_profit_pct : {NoneF},
     start_balance : {0, 1000}, openai_client : BOOLEAN,
     id : {1}, balance : StoredBalances]

DEFAULT_UNCERTAINTY_THRESHOLD == 700
DEFAULT_MAX_POSITION_SIZE_PCT == 250
DEFAULT_LEVERAGE == 1

\* getattr(trader, name, None)
getattr(obj, name) == IF name \in DOMAIN obj THEN obj[name] ELSE NoneF

\* the risk settings execute_trader reads from the agent and returns as
\* settings_used
settings_used(cfg) ==
    [uncertainty_threshold |->
        IF getattr(cfg, "uncertainty_threshold") = NoneF
        THEN DEFAULT_UNCERTAINTY_THRESHOLD
        ELSE getattr(cfg, "uncertainty_threshold"),
     max_position_size_pct |->
        IF getattr(cfg, "max_position_size_pct") = NoneF
        THEN DEFAULT_MAX_POSITION_SIZE_PCT
        ELSE getattr(cfg, "max_position_size_pct"),
     default_leverage |->
        IF getattr(cfg, "default_leverage") = NoneF
        THEN DEFAULT_LEVERAGE
        ELSE getattr(cfg, "default_leverage"),
     stop_loss_pct |-> getattr(cfg, "stop_loss_pct"),
     take_profit_pct |-> getattr(cfg, "take_profit_pct")]

\* create_broker raises for an unsupported exchange and for a Hyperliquid
\* connection without wallet address or agent key
create_broker_raises(connection) ==
    connection \in {"hyperliquid_no_key", "unsupported"}

\* the configuration checks without the broker connection check
config_error_no_connection_check(cfg) ==
    IF cfg.prompt_template = "" THEN "No prompt template"
    ELSE IF cfg.tickers = <<>> THEN "No tickers configured"
    ELSE IF cfg.connection # "none" /\ create_broker_raises(cfg.connection)
         THEN "Failed to create broker"
    ELSE None

\* the early returns of execute_trader, in their order
config_error(cfg) ==
    IF cfg.prompt_template = "" THEN "No prompt template"
    ELSE IF cfg.tickers = <<>> THEN "No tickers configured"
    ELSE IF cfg.connection = "none" THEN "No broker connection"
    ELSE IF create_broker_raises(cfg.connection) THEN "Failed to create broker"
    ELSE None

\* a failure returned as a success
TraderFailure_as_success(msg) == [success |-> TRUE, error |-> msg]

\* the failure dictionary of execute_trader
TraderFailure(msg) == [success |-> FALSE, error |-> msg]

TraderSuccess(d, trade_result) ==
    [success |-> TRUE, decision |-> d, trade_result |-> trade_result]

\* an exception that leaves execute_trader
TraderRaised == [raised |-> TRUE]

\* the model call left outside the try
TraderCatches_not_llm(stage) == stage # "call_llm"

\* every stage of execute_trader runs inside its try/except Exception
TraderCatches(stage) == TRUE

\* the model call made again after it failed
after_failure_retries(stage) ==
    IF stage = "call_llm" THEN "call_llm" ELSE "done"

\* a failure of the account data swallowed, the pipeline going on
after_failure_skips_account_data(stage) ==
    IF stage = "account_data" THEN "call_llm" ELSE "done"

\* where execute_trader continues after an exception: its except clause
\* returns, no stage is entered again
after_failure(stage) == "done"

\* an exception raised at a stage of execute_trader
TraderFail(stage, msg) ==
    /\ tpc' = after_failure(stage)
    /\ tresult' = IF TraderCatches(stage) THEN TraderFailure(msg)
                  ELSE TraderRaised

\* outcomes of the chat completion request
LLMOutcomes == {"ok", "nonjson", "transport"}

NetCall(op, outcome) == [op |-> op, outcome |-> outcome]

\* APICallLog rows
SuccessLog(d) ==
    [success |-> TRUE, decision_coin |-> d.coin,
     decision_action |-> d.decision, decision_uncertainty |-> d.uncertainty,
     decision_quantity |-> d.quantity, error_message |-> None]

ErrorLog(error_msg) ==
    [success |-> FALSE, decision_coin |-> None, decision_action |-> None,
     decision_uncertainty |-> NoneF, decision_quantity |-> NoneF,
     error_message |-> error_msg]

LLMErrorText(outcome) ==
    CASE outcome = "no_client" -> "OpenAI API key not configured"
      [] outcome = "transport" -> "exception in chat.completions.create"
      [] outcome = "nonjson"   -> "Invalid LLM response format"
      [] outcome = "invalid"   -> ParseError.error

\* rows call_llm_api writes for a failed call
LLMErrorRows(outcome) ==
    IF outcome = "no_client" THEN <<>> ELSE <<ErrorLog(LLMErrorText(outcome))>>

\* model outputs used in the pipeline: long, close, hold by default, a long
\* above the threshold, and an uncertainty float() rejects
RawBase ==
    [coin |-> Str("btc"), decision |-> Str("LONG"), uncertainty |-> Num(500),
     quantity |-> Num(20), position_pct |-> Absent, leverage |-> JNull,
     stop_loss_pct |-> Absent, take_profit_pct |-> Num(100)]

PipelineOutputs ==
    {RawBase,
     [RawBase EXCEPT !.decision = Str("close")],
     [RawBase EXCEPT !.decision = AbsentS],
     [RawBase EXCEPT !.uncertainty = Num(1700)],
     [RawBase EXCEPT !.uncertainty = Junk]}

\* execute_trader up to the creation of the broker
ExecuteTrader(cfg) ==
    /\ tpc = "idle"
    /\ content = NoneD
    /\ trader' = cfg
    /\ IF config_error(cfg) # None
       THEN /\ tpc' = "done"
            /\ tresult' = TraderFailure(config_error(cfg))
       ELSE /\ tpc' = "market_data"
            /\ UNCHANGED tresult
    /\ ticks' = ticks + 1
    /\ UNCHANGED <<net, api_logs, content, parsed, account_data, execVars,
                   schedVars, triggers, cancels_ok, longshort_ok, apiVars>>

\* format_market_data_for_prompt: a failed fetch skips the ticker
FormatMarketData(outcome) ==
    /\ tpc = "market_data"
    /\ net' = Append(net, NetCall("fetch_ohlcv", outcome))
    /\ tpc' = "account_data"
    /\ UNCHANGED <<trader, api_logs, content, parsed, tresult, account_data,
                   execVars, schedVars, exchVars, apiVars>>

\* account values the exchange reports for the wallet
AccountValues == {800}

\* HyperliquidBroker.get_balance: the account value, or 0.0 when the request
\* fails
get_balance(outcome, account_value) ==
    IF outcome = "ok" THEN account_value ELSE 0

\* real_balance of format_account_data_for_prompt: the value get_balance
\* returns; the stored balance is kept only when get_balance raises
real_balance(stored, outcome, account_value) ==
    IF outcome = "raise" THEN stored ELSE get_balance(outcome, account_value)

\* the three balance figures of the prompt; the percentage in whole percent
AccountData(balance, start_balance) ==
    [total_return |-> ((balance - start_balance) * 100) \div start_balance,
     available_cash |-> balance, account_value |-> balance]

\* format_account_data_for_prompt: broker errors are swallowed; the return
\* percentage divides by trader.start_balance
FormatAccountData(outcome) ==
    /\ tpc = "account_data"
    /\ IF trader.start_balance = 0
       THEN /\ net' = Append(net, NetCall("get_balance", outcome))
            /\ TraderFail("account_data", "float division by zero")
            /\ UNCHANGED account_data
       ELSE /\ net' = net \o <<NetCall("get_balance", outcome),
                               NetCall("get_positions", outcome)>>
            /\ \E account_value \in AccountValues :
                  account_data' =
                     AccountData(real_balance(trader.balance, outcome,
                                              account_value),
                                 trader.start_balance)
            /\ tpc' = "call_llm"
            /\ UNCHANGED tresult
    /\ UNCHANGED <<trader, api_logs, content, parsed, execVars,
                   schedVars, exchVars, apiVars>>

\* call_llm_api: request, JSON parsing, validation and the APICallLog row
CallLLM(outcome, raw) ==
    /\ tpc = "call_llm"
    /\ IF ~trader.openai_client
       THEN /\ net' = Append(net, NetCall("call_llm_api", "no_client"))
            /\ api_logs' = api_logs \o LLMErrorRows("no_client")
            /\ TraderFail("call_llm", LLMErrorText("no_client"))
            /\ UNCHANGED <<content, parsed>>
       ELSE IF outcome # "ok"
       THEN /\ net' = Append(net, NetCall("call_llm_api", outcome))
            /\ api_logs' = api_logs \o LLMErrorRows(outcome)
            /\ TraderFail("call_llm", LLMErrorText(outcome))
            /\ UNCHANGED <<content, parsed>>
       ELSE LET p == parse_decision(raw)
            IN /\ content' = raw
               /\ parsed' = p
               /\ IF p.ok
                  THEN /\ net' = Append(net, NetCall("call_llm_api", "ok"))
                       /\ api_logs' = Append(api_logs, SuccessLog(p.decision))
                       /\ tpc' = "execute_trade"
                       /\ UNCHANGED tresult
                  ELSE /\ net' = Append(net, NetCall("call_llm_api", "invalid"))
                       /\ api_logs' = api_logs \o LLMErrorRows("invalid")
                       /\ TraderFail("call_llm", LLMErrorText("invalid"))
    /\ UNCHANGED <<trader, account_data, execVars, schedVars, exchVars,
                   apiVars>>

\* execute_trader calls execute_trade with the trader's settings
TraderExecuteTrade ==
    /\ tpc = "execute_trade"
    /\ ExecuteTrade(parsed.decision, TRUE,
                    settings_used(trader).uncertainty_threshold,
                    settings_used(trader).stop_loss_pct,
                    settings_used(trader).take_profit_pct)

\* execute_trade has returned (or raised): execute_trader returns
TraderReturn ==
    /\ tpc = "execute_trade"
    /\ pc = "done"
    /\ IF raised
       THEN TraderFail("execute_trade", "exception in execute_trade")
       ELSE /\ tpc' = "done"
            /\ tresult' = TraderSuccess(parsed.decision, result)
    /\ UNCHANGED <<trader, net, api_logs, content, parsed, account_data,
                   execVars, schedVars, exchVars, apiVars>>

TraderInit ==
    /\ InitExec
    /\ InitSched
    /\ InitTrader
    /\ InitExch
    /\ InitApi
    /\ position \in [Coins -> InitialSizes]

TraderNext ==
    \/ \E cfg \in TraderConfigs : ExecuteTrader(cfg)
    \/ \E outcome \in {"ok", "error"} : FormatMarketData(outcome)
    \/ \E outcome \in {"ok", "error"} : FormatAccountData(outcome)
    \/ \E outcome \in LLMOutcomes, raw \in PipelineOutputs : CallLLM(outcome, raw)
    \/ TraderExecuteTrade
    \/ \E outcome \in {"ok", "error", "raise"} : GetPositions(outcome)
    \/ \E outcome \in TradeOutcomes, price \in FillPrices :
          CloseTrade(outcome, price)
    \/ \E outcome \in TradeOutcomes, price \in FillPrices :
          Primary(outcome, price)
    \/ \E outcome \in CancelOutcomes : CancelTriggers(outcome)
    \/ \E outcome \in TriggerOutcomes : PlaceStopLoss(outcome)
    \/ \E outcome \in TriggerOutcomes : PlaceTakeProfit(outcome)
    \/ TraderReturn

TraderSpec == TraderInit /\ [][TraderNext]_vars

\* ------------------------------------- the pipeline on a Hyperliquid account

\* what the exchange does with a request: it answers, it answers with an
\* error, or the request fails in the transport
Upstream == {"ok", "rejected", "unreachable"}

\* a transport failure left to propagate
hl_execute_trade_reraises(up) ==
    CASE up = "ok" -> "ok" [] up = "rejected" -> "fail" [] OTHER -> "raise"

\* HyperliquidBroker.execute_trade: every failure is caught and returned as
\* {success: False, error}
hl_execute_trade(up) == IF up = "ok" THEN "ok" ELSE "fail"

\* HyperliquidBroker.get_positions: [] on any failure
hl_get_positions(up) == IF up = "ok" THEN "ok" ELSE "error"

\* HyperliquidBroker.get_balance: 0.0 on any failure
hl_get_balance(up) == IF up = "ok" THEN "ok" ELSE "error"

\* HyperliquidBroker.place_stop_loss: {success: False, error} on any failure
hl_place_stop_loss(up) == IF up = "ok" THEN "ok" ELSE "fail"

\* HyperliquidBroker.place_take_profit: {success: False, error} on any
\* failure
hl_place_take_profit(up) == IF up = "ok" THEN "ok" ELSE "fail"

\* HyperliquidBroker.cancel_trigger_orders: get_open_trigger_orders returns
\* [] when its request fails; each cancel has a try/except of its own
hl_cancel_trigger_orders(list_up, cancel_up) ==
    IF list_up # "ok" THEN "unlisted"
    ELSE IF cancel_up = "ok" THEN "ok" ELSE "rejected"

\* the agents of one user: get_broker_connection gives both the user's one
\* wallet
AccountAgents == {1, 2}

AccountConfigs ==
    [prompt_template : {"prompt"}, tickers : {<<"BTC">>},
     connection : {"hyperliquid"}, uncertainty_threshold : {NoneF},
     stop_loss_pct : UserPcts, take_profit_pct : {NoneF},
     start_balance : {1000}, openai_client : {TRUE},
     id : AccountAgents, balance : StoredBalances]

\* model outputs: long and short with a take profit, long without, close
AccountOutputs ==
    {RawBase,
     [RawBase EXCEPT !.decision = Str("Short")],
     [RawBase EXCEPT !.take_profit_pct = Absent],
     [RawBase EXCEPT !.decision = Str("close")]}

\* ticks run on the account
MaxTicks == 2

\* execute_trader has returned to its caller: the locals of the invocation
\* are gone, the account stays as it is
EndOfTick ==
    /\ tpc = "done"
    /\ longshort_ok' = (/\ longshort_ok
                        /\ tresult.success
                        /\ tresult.trade_result.success
                        /\ tresult.trade_result.action \in {"long", "short"})
    /\ tpc' = "idle"
    /\ trader' = NoneD
    /\ net' = <<>>
    /\ api_logs' = <<>>
    /\ content' = NoneD
    /\ parsed' = NoneD
    /\ tresult' = NoneD
    /\ account_data' = NoneD
    /\ pc' = "idle"
    /\ inv' = NoneD
    /\ calls' = <<>>
    /\ result' = NoResult
    /\ saved' = <<>>
    /\ raised' = FALSE
    /\ position_to_close' = NoneD
    /\ UNCHANGED <<position, triggers, ticks, cancels_ok, schedVars, apiVars>>

AccountInit ==
    /\ InitExec
    /\ InitSched
    /\ InitTrader
    /\ InitExch
    /\ InitApi
    /\ position = [c \in Coins |-> 0]

\* ticks of the user's agents, one after the other, through the Hyperliquid
\* adapter
AccountNext ==
    \/ ticks < MaxTicks /\ \E cfg \in AccountConfigs : ExecuteTrader(cfg)
    \/ FormatMarketData("ok")
    \/ \E up \in Upstream : FormatAccountData(hl_get_balance(up))
    \/ \E raw \in AccountOutputs : CallLLM("ok", raw)
    \/ TraderExecuteTrade
    \/ \E up \in Upstream : GetPositions(hl_get_positions(up))
    \/ \E up \in Upstream, price \in FillPrices :
          CloseTrade(hl_execute_trade(up), price)
    \/ \E up \in Upstream, price \in FillPrices :
          Primary(hl_execute_trade(up), price)
    \/ \E list_up \in Upstream, cancel_up \in Upstream :
          CancelTriggers(hl_cancel_trigger_orders(list_up, cancel_up))
    \/ \E up \in Upstream : PlaceStopLoss(hl_place_stop_loss(up))
    \/ \E up \in Upstream : PlaceTakeProfit(hl_place_take_profit(up))
    \/ TraderReturn
    \/ EndOfTick

AccountSpec == AccountInit /\ [][AccountNext]_vars

\* a request of _make_request that the exchange never answers: requests.get
\* and requests.post are called without a timeout, so the call does not
\* return; get_balance, get_positions and get_open_trigger_orders go through
\* _make_request
MakeRequestHangs ==
    /\ \/ tpc = "account_data"
       \/ tpc = "execute_trade" /\ pc \in {"get_positions", "cancel"}
    /\ net' = Append(net, NetCall("_make_request", "no answer"))
    /\ tpc' = "blocked"
    /\ pc' = IF pc \in {"get_positions", "cancel"} THEN "blocked" ELSE pc
    /\ UNCHANGED <<trader, api_logs, content, parsed, tresult, account_data,
                   inv, calls, result, saved, raised, position_to_close,
                   position, schedVars, exchVars, apiVars>>

\* one tick whose exchange may stay silent
LiveNext == TraderNext \/ MakeRequestHangs

\* the thread that runs the tick keeps running
LiveSpec == TraderInit /\ [][LiveNext]_vars /\ WF_vars(LiveNext)

\* ------------------------------------------------------------ scripts API

Users == {"u1", "u2"}

\* JSON bodies of an activation request: none, without 'active', with it
ActivateBodies ==
    {[json |-> FALSE, has_active |-> FALSE, active |-> FALSE],
     [json |-> TRUE, has_active |-> FALSE, active |-> FALSE],
     [json |-> TRUE, has_active |-> TRUE, active |-> FALSE],
     [json |-> TRUE, has_active |-> TRUE, active |-> TRUE]}

\* id given to a new user_scripts row
NewScriptId ==
    LET used == {i \in ScriptIds : scripts[i] # NoneD}
    IN IF used = {} THEN 1
       ELSE 1 + CHOOSE m \in used : \A x \in used : x <= m

\* the query without the owner filter
find_script_any_owner(rows, script_id, user_id) ==
    IF script_id \in DOMAIN rows /\ rows[script_id] # NoneD
    THEN script_id ELSE 0

\* the row with this id that belongs to the user, or 0
find_script(rows, script_id, user_id) ==
    IF script_id \in DOMAIN rows /\ rows[script_id] # NoneD
       /\ rows[script_id].user_id = user_id
    THEN script_id ELSE 0

\* status code of POST /<script_id>/activate
activate_status(rows, user_id, script_id, body) ==
    IF ~body.json \/ ~body.has_active THEN 400
    ELSE IF find_script(rows, script_id, user_id) = 0 THEN 404
    ELSE 200

\* POST /upload: save_script stores the row active
UploadScript(user_id) ==
    /\ NewScriptId \in ScriptIds
    /\ scripts' = [scripts EXCEPT ![NewScriptId] =
                      [user_id |-> user_id, active |-> TRUE]]
    /\ last_op' = NoneD
    /\ UNCHANGED <<exists, active, frequency, jobs, running, rpc, rarg, conns,
                   execVars, traderVars, exchVars>>

\* POST /<script_id>/activate
ActivateScript(user_id, script_id, body) ==
    /\ scripts' = IF activate_status(scripts, user_id, script_id, body) = 200
                  THEN [scripts EXCEPT ![script_id].active = body.active]
                  ELSE scripts
    /\ last_op' = [op |-> "activate_script", user_id |-> user_id,
                   script_id |-> script_id, body |-> body,
                   status |-> activate_status(scripts, user_id, script_id, body),
                   before |-> scripts]
    /\ UNCHANGED <<exists, active, frequency, jobs, running, rpc, rarg, conns,
                   execVars, traderVars, exchVars>>

\* script ids a request can name: those of the table and one beyond it
RequestScriptIds == ScriptIds \cup {999}

ScriptNext ==
    \/ \E u \in Users : UploadScript(u)
    \/ \E u \in Users, i \in RequestScriptIds, b \in ActivateBodies :
          ActivateScript(u, i, b)

ScriptSpec == SchedInit /\ [][ScriptNext]_vars

\* -------------------------------------------------- broker connections API

Wallets == {"0xA"}

\* _test_hyperliquid_connection: the probe fails when the broker cannot be
\* built from the key; get_balance returns 0.0 instead of raising when the
\* exchange does not answer, so the probe passes then
test_connection(key_ok, up) ==
    LET balances == {get_balance(hl_get_balance(up), v) : v \in AccountValues}
    IN key_ok /\ balances # {}

\* first broker_connections row of the user for the exchange, or 0
existing_connection(rows, user_id, exchange) ==
    LET idx == {i \in 1..Len(rows) : rows[i].user_id = user_id
                                     /\ rows[i].exchange = exchange}
    IN IF idx = {} THEN 0 ELSE CHOOSE i \in idx : \A j \in idx : i <= j

\* POST /brokers/connections, up to the query for an existing row: the
\* credentials are well formed and the probe has passed
CreateConnectionQuery(r, user_id, wallet, key_ok, up) ==
    /\ r = FreeThread
    /\ test_connection(key_ok, up)
    /\ rpc' = [rpc EXCEPT ![r] = "create_connection"]
    /\ rarg' = [rarg EXCEPT ![r] =
                   [user_id |-> user_id, main_wallet_address |-> wallet,
                    existing |-> existing_connection(conns, user_id,
                                                     "hyperliquid")]]
    /\ last_op' = NoneD
    /\ UNCHANGED <<exists, active, frequency, jobs, running, scripts, conns,
                   execVars, traderVars, exchVars>>

\* POST /brokers/connections, the update or the insert and its commit
CreateConnectionCommit(r) ==
    /\ rpc[r] = "create_connection"
    /\ conns' =
          IF rarg[r].existing # 0
          THEN [conns EXCEPT ![rarg[r].existing] =
                  [@ EXCEPT !.main_wallet_address = rarg[r].main_wallet_address,
                            !.is_connected = TRUE,
                            !.connection_status = "connected"]]
          ELSE Append(conns,
                      [id |-> Len(conns) + 1, user_id |-> rarg[r].user_id,
                       exchange |-> "hyperliquid",
                       main_wallet_address |-> rarg[r].main_wallet_address,
                       is_connected |-> TRUE,
                       connection_status |-> "connected"])
    /\ rpc' = [rpc EXCEPT ![r] = "idle"]
    /\ rarg' = [rarg EXCEPT ![r] = NoneD]
    /\ last_op' = NoneD
    /\ UNCHANGED <<exists, active, frequency, jobs, running, scripts,
                   execVars, traderVars, exchVars>>

\* POST /brokers/connections/<id>/test for a row of the user
TestConnectionEndpoint(user_id, connection_id, key_ok, up) ==
    /\ connection_id \in 1..Len(conns)
    /\ conns[connection_id].user_id = user_id
    /\ LET test_passed == test_connection(key_ok, up)
       IN conns' = [conns EXCEPT ![connection_id] =
                      [@ EXCEPT !.connection_status =
                                   IF test_passed THEN "connected" ELSE "error",
                                !.is_connected = test_passed]]
    /\ last_op' = [op |-> "test_connection", connection_id |-> connection_id,
                   key_ok |-> key_ok, upstream |-> up]
    /\ UNCHANGED <<exists, active, frequency, jobs, running, rpc, rarg, scripts,
                   execVars, traderVars, exchVars>>

\* ids of the rows the requests can create: one per user and request thread
ConnectionIds == 1..(Cardinality(Users) * Cardinality(Requests))

ConnNext ==
    \/ \E r \in Requests, u \in Users, w \in Wallets, k \in BOOLEAN,
          up \in Upstream : CreateConnectionQuery(r, u, w, k, up)
    \/ \E r \in Requests : CreateConnectionCommit(r)
    \/ \E u \in Users, i \in ConnectionIds, k \in BOOLEAN, up \in Upstream :
          TestConnectionEndpoint(u, i, k, up)

ConnSpec == SchedInit /\ [][ConnNext]_vars

\* ------------------------------------- an agent with uncertainty_threshold 0.0

\* the agent create_trader stores for uncertainty_threshold 0.0
ZeroThresholdConfigs ==
    [prompt_template : {"prompt"}, tickers : {<<"BTC">>},
     connection : {"hyperliquid"}, uncertainty_threshold : {0},
     stop_loss_pct : UserPcts, take_profit_pct : {NoneF},
     start_balance : {1000}, openai_client : {TRUE},
     id : {1}, balance : StoredBalances]

\* model outputs with an uncertainty of 0.5, of 0.0 and below 0.0, a close and
\* a hold among them
ZeroThresholdOutputs ==
    {RawBase,
     [RawBase EXCEPT !.uncertainty = Num(0)],
     [RawBase EXCEPT !.uncertainty = Num(-300)],
     [RawBase EXCEPT !.uncertainty = Num(0), !.decision = Str("close")],
     [RawBase EXCEPT !.decision = AbsentS]}

ZeroThresholdNext ==
    \/ \E cfg \in ZeroThresholdConfigs : ExecuteTrader(cfg)
    \/ \E outcome \in {"ok", "error"} : FormatMarketData(outcome)
    \/ \E outcome \in {"ok", "error"} : FormatAccountData(outcome)
    \/ \E outcome \in LLMOutcomes, raw \in ZeroThresholdOutputs :
          CallLLM(outcome, raw)
    \/ TraderExecuteTrade
    \/ \E outcome \in {"ok", "error", "raise"} : GetPositions(outcome)
    \/ \E outcome \in TradeOutcomes, price \in FillPrices :
          CloseTrade(outcome, price)
    \/ \E outcome \in TradeOutcomes, price \in FillPrices :
          Primary(outcome, price)
    \/ \E outcome \in CancelOutcomes : CancelTriggers(outcome)
    \/ \E outcome \in TriggerOutcomes : PlaceStopLoss(outcome)
    \/ \E outcome \in TriggerOutcomes : PlaceTakeProfit(outcome)
    \/ TraderReturn

ZeroThresholdSpec == TraderInit /\ [][ZeroThresholdNext]_vars

\* ------------------------------------- the scheduler's methods called directly

\* TradingScheduler.add_trader(trader_id, trading_frequency)
AddTrader(trader_id, trading_frequency) ==
    /\ jobs' = add_trader(jobs, trader_id, trading_frequency)
    /\ last_op' = [op |-> "add_trader", trader_id |-> trader_id,
                   trading_frequency |-> trading_frequency, before |-> jobs,
                   returned |-> add_trader_result(jobs, trader_id,
                                                  trading_frequency)]
    /\ UNCHANGED <<exists, active, frequency, running, rpc, rarg, execVars,
                   traderVars, exchVars, apiVars>>

\* TradingScheduler.remove_trader(trader_id)
RemoveTrader(trader_id) ==
    /\ jobs' = remove_trader(jobs, trader_id)
    /\ last_op' = [op |-> "remove_trader", trader_id |-> trader_id,
                   before |-> jobs,
                   returned |-> remove_trader_result(jobs, trader_id)]
    /\ UNCHANGED <<exists, active, frequency, running, rpc, rarg, execVars,
                   traderVars, exchVars, apiVars>>

\* frequency strings of the direct calls
MethodFrequencies == {"1Hour", "5min", "1day", "2hour"}

MethodNext ==
    \/ \E trader_id \in AgentIds, trading_frequency \in MethodFrequencies :
          AddTrader(trader_id, trading_frequency)
    \/ \E trader_id \in AgentIds : RemoveTrader(trader_id)

MethodSpec == SchedInit /\ [][MethodNext]_vars

\* ------------------------------------------------ the size of the orders

\* an agent with the default threshold, a stop loss of its own or none, and
\* position size and leverage settings, stored or left to the defaults
SizingConfigs ==
    [prompt_template : {"prompt"}, tickers : {<<"BTC">>},
     connection : {"hyperliquid"}, uncertainty_threshold : {NoneF},
     stop_loss_pct : UserPcts, take_profit_pct : {NoneF},
     start_balance : {1000}, openai_client : {TRUE},
     id : {1}, balance : StoredBalances,
     max_position_size_pct : {NoneF, 10}, default_leverage : {NoneF, 5}]

\* model outputs with a quantity of two size steps, of 1.6 steps, and
\* without a quantity (0.0); with and without position_pct and leverage;
\* long, short and close
SizingOutputs ==
    {RawBase,
     [RawBase EXCEPT !.position_pct = Num(100), !.leverage = Num(10)],
     [RawBase EXCEPT !.quantity = Num(16)],
     [RawBase EXCEPT !.quantity = Absent, !.decision = Str("short")],
     [RawBase EXCEPT !.decision = Str("close")]}

SizingNext ==
    \/ \E cfg \in SizingConfigs : ExecuteTrader(cfg)
    \/ \E outcome \in {"ok", "error"} : FormatMarketData(outcome)
    \/ \E outcome \in {"ok", "error"} : FormatAccountData(outcome)
    \/ \E outcome \in LLMOutcomes, raw \in SizingOutputs :
          CallLLM(outcome, raw)
    \/ TraderExecuteTrade
    \/ \E outcome \in {"ok", "error", "raise"} : GetPositions(outcome)
    \/ \E outcome \in TradeOutcomes, price \in FillPrices :
          CloseTrade(outcome, price)
    \/ \E outcome \in TradeOutcomes, price \in FillPrices :
          Primary(outcome, price)
    \/ \E outcome \in CancelOutcomes : CancelTriggers(outcome)
    \/ \E outcome \in TriggerOutcomes : PlaceStopLoss(outcome)
    \/ \E outcome \in TriggerOutcomes : PlaceTakeProfit(outcome)
    \/ TraderReturn

SizingSpec == TraderInit /\ [][SizingNext]_vars

\* ------------------------------------------- the adapter's sizes and prices

\* requested sizes (tenths of a size step), requested trigger prices and
\* current prices (thousandths of a tick; 0: the price could not be read)
SizeInputs == {0, 4, 16, 23, 30}
TriggerSizes == {20}
TriggerInputs == {400, 45000, 60000, 190000, 230000}
CurrentPrices == {0, 50000, 200000}

\* one broker.execute_trade call
HLExecuteTrade(coin, side, quantity, current_price, up) ==
    /\ last_op' = [op |-> "execute_trade", coin |-> coin, side |-> side,
                   quantity |-> quantity, current_price |-> current_price,
                   request |-> TradeRequest(coin, side, quantity,
                                            current_price, up)]
    /\ UNCHANGED <<exists, active, frequency, jobs, running, rpc, rarg,
                   execVars, traderVars, exchVars, apiVars>>

\* one broker.place_stop_loss call
HLPlaceStopLoss(mapped, quantity, trigger_price, is_long, current_price, up) ==
    /\ last_op' = [op |-> "place_stop_loss", is_long |-> is_long,
                   quantity |-> quantity, trigger_price |-> trigger_price,
                   current_price |-> current_price,
                   request |-> TriggerRequest("sl", mapped, quantity,
                                              trigger_price, is_long,
                                              current_price, up)]
    /\ UNCHANGED <<exists, active, frequency, jobs, running, rpc, rarg,
                   execVars, traderVars, exchVars, apiVars>>

\* one broker.place_take_profit call
HLPlaceTakeProfit(mapped, quantity, trigger_price, is_long, current_price, up) ==
    /\ last_op' = [op |-> "place_take_profit", is_long |-> is_long,
                   quantity |-> quantity, trigger_price |-> trigger_price,
                   current_price |-> current_price,
                   request |-> TriggerRequest("tp", mapped, quantity,
                                              trigger_price, is_long,
                                              current_price, up)]
    /\ UNCHANGED <<exists, active, frequency, jobs, running, rpc, rarg,
                   execVars, traderVars, exchVars, apiVars>>

AdapterNext ==
    \/ \E coin \in Coins, side \in {"long", "short"}, quantity \in SizeInputs,
          current_price \in CurrentPrices, up \in Upstream :
          HLExecuteTrade(coin, side, quantity, current_price, up)
    \/ \E mapped \in BOOLEAN, quantity \in TriggerSizes,
          trigger_price \in TriggerInputs, is_long \in BOOLEAN,
          current_price \in CurrentPrices, up \in Upstream :
          HLPlaceStopLoss(mapped, quantity, trigger_price, is_long,
                          current_price, up)
    \/ \E mapped \in BOOLEAN, quantity \in TriggerSizes,
          trigger_price \in TriggerInputs, is_long \in BOOLEAN,
          current_price \in CurrentPrices, up \in Upstream :
          HLPlaceTakeProfit(mapped, quantity, trigger_price, is_long,
                            current_price, up)

AdapterSpec == SchedInit /\ [][AdapterNext]_vars

\* ------------------------------------------------------------- properties

Started == pc # "idle"
Done == pc = "done"

TradeCalls == SelectSeq(calls, LAMBDA c : c.op = "execute_trade")

TriggerOps == {"cancel_trigger_orders", "place_stop_loss", "place_take_profit"}

Gated == inv.decision.uncertainty > inv.uncertainty_threshold

RaisedAt(ops) ==
    \E i \in 1..Len(calls) : calls[i].op \in ops /\ calls[i].outcome = "raise"

\* C1: every execute_trade invocation with trade saving enabled adds exactly
\* one Trade row, whichever branch is taken (skip, hold, close with or
\* without a position, long/short success or failure, broker exception).
C1_ExactlyOneTradeRow ==
    (Done /\ inv.save_trade) => Len(saved) = 1

\* C2: a long, short or close decision whose uncertainty is above the
\* threshold makes no broker call at all.
C2_GateBeforeBroker ==
    (Started /\ Gated /\ inv.decision.decision \in {"long", "short", "close"})
        => calls = <<>>

C2_Witness ==
    /\ Done
    /\ Gated
    /\ inv.decision.decision = "close"
    /\ position[inv.decision.coin] # 0
    /\ result.action = "skipped"

\* C3: a close decision with an open position on the coin, long or short,
\* submits exactly one order, opposite to the position and of its absolute
\* size, so that a filled close leaves the position at zero.
C3_CloseFlattens ==
    (Done /\ inv.decision.decision = "close" /\ position_to_close # NoneD
          /\ ~RaisedAt({"execute_trade"}))
        => /\ Len(TradeCalls) = 1
           /\ LET c == TradeCalls[1]
                  held == c.pos_before[c.symbol]
              IN /\ c.symbol = inv.decision.coin
                 /\ c.side = IF held > 0 THEN "short" ELSE "long"
                 /\ c.quantity = Abs(held)
                 /\ result.success => position[c.symbol] = 0

\* C4: cancel_trigger_orders, place_stop_loss and place_take_profit are
\* called only after the primary trade returned success with a non-zero
\* price, and a cancel for the symbol precedes every placement; after a
\* failed or zero-price primary trade none of the three is called.
C4_TriggerOrdering ==
    \A i \in 1..Len(calls) :
        calls[i].op \in TriggerOps =>
            /\ inv.decision.decision \in {"long", "short"}
            /\ calls[1].op = "execute_trade"
            /\ calls[1].outcome \notin {"raise", "fail", "ok0"}
            /\ result.success /\ result.price > 0
            /\ calls[i].op # "cancel_trigger_orders" =>
                  \E j \in 1..(i - 1) :
                      /\ calls[j].op = "cancel_trigger_orders"
                      /\ calls[j].symbol = calls[i].symbol

C4_Witness ==
    /\ Done
    /\ Len(calls) = 4
    /\ calls[2].op = "cancel_trigger_orders"
    /\ calls[3].op = "place_stop_loss"
    /\ calls[4].op = "place_take_profit"

StopLossFailed ==
    \E i \in 1..Len(calls) :
        calls[i].op = "place_stop_loss" /\ calls[i].outcome \in {"raise", "fail"}

\* C5: when the primary long/short trade succeeds and the stop-loss placement
\* raises or reports failure, execute_trade does not raise, submits no order
\* to unwind the trade, returns success, and saves a row with success, the
\* primary order id and price, and a stop_loss_order recording the failure
\* with its error.
C5_StopLossFailureIsolated ==
    (Done /\ StopLossFailed)
        => /\ ~raised
           /\ Len(TradeCalls) = 1
           /\ result.success
           /\ inv.save_trade =>
                 /\ Len(saved) = 1
                 /\ saved[1].success
                 /\ saved[1].side = inv.decision.decision
                 /\ saved[1].order_id = "oid_primary"
                 /\ saved[1].price \in FillPrices
                 /\ saved[1].stop_loss_order # NoneD
                 /\ saved[1].stop_loss_order.success = FALSE
                 /\ saved[1].stop_loss_order.error # None

C5_Witness ==
    /\ Done
    /\ inv.save_trade
    /\ \E i \in 1..Len(calls) :
          calls[i].op = "place_stop_loss" /\ calls[i].outcome = "raise"
    /\ Len(saved) = 1
    /\ saved[1].stop_loss_order.error = ExcText("sl")

\* C6: if the broker raises in get_positions or execute_trade, in the close
\* branch or the long/short branch, execute_trade does not raise, returns
\* success=false with the exception text, and saves a failed row with price
\* 0, success=false and that text.
C6_BrokerExceptionRecorded ==
    (Done /\ RaisedAt({"get_positions", "execute_trade"}))
        => /\ ~raised
           /\ result.success = FALSE
           /\ result.error \in {ExcText("get_positions"), ExcText("close_trade"),
                                ExcText("primary")}
           /\ inv.save_trade =>
                 /\ Len(saved) = 1
                 /\ saved[1].price = 0
                 /\ saved[1].success = FALSE
                 /\ saved[1].error_message = result.error

\* C10: a gated non-hold decision is saved with side 'skipped', its coin,
\* quantity and uncertainty, price 0 and success; a hold decision, whatever
\* its uncertainty, is saved with side 'hold', quantity 0 and price 0.
C10_SkippedAndHoldDistinct ==
    (Done /\ inv.save_trade) =>
        /\ (Gated /\ inv.decision.decision # "hold") =>
              /\ Len(saved) = 1
              /\ saved[1].side = "skipped"
              /\ saved[1].coin = inv.decision.coin
              /\ saved[1].quantity = inv.decision.quantity
              /\ saved[1].uncertainty = inv.decision.uncertainty
              /\ saved[1].price = 0
              /\ saved[1].success
        /\ inv.decision.decision = "hold" =>
              /\ Len(saved) = 1
              /\ saved[1].side = "hold"
              /\ saved[1].quantity = 0
              /\ saved[1].price = 0

C10_Witness ==
    /\ Done
    /\ inv.save_trade
    /\ Gated
    /\ inv.decision.decision = "hold"
    /\ saved[1].side = "hold"

JobsOf(id) == {j \in jobs : j.id = get_job_id(id)}

\* C7: after any sequence of completed, non-overlapping operations every
\* active agent has exactly one scheduler job keyed by its id, and no agent
\* id ever has more than one job.
C7_ActiveHasOneJob ==
    /\ \A id \in AgentIds : Cardinality(JobsOf(id)) <= 1
    /\ Quiescent =>
          \A id \in AgentIds :
              (exists[id] /\ active[id]) => Cardinality(JobsOf(id)) = 1

C7_Witness ==
    /\ Quiescent
    /\ \E id \in AgentIds :
          /\ exists[id] /\ active[id]
          /\ frequency[id] = "1Hour"
          /\ Cardinality(JobsOf(id)) = 1
    /\ \E id \in AgentIds : exists[id] /\ ~active[id] /\ JobsOf(id) = {}

\* C8: when an activate and a deactivate request for the same agent run
\* concurrently, in every interleaving the final state has a job for the
\* agent exactly when its stored active flag is true.
C8_ToggleAtomic ==
    (\A r \in Requests : rpc[r] = "idle") =>
        \A id \in AgentIds : exists[id] => (HasJob(id) <=> active[id])

\* C9: two scheduled ticks of the same agent never execute concurrently:
\* while one instance of the job is running no second one starts.
C9_NoOverlappingTicks ==
    \A id \in AgentIds : Len(running[id]) <= 1

C9_Witness ==
    \E id \in AgentIds : HasJob(id) /\ running[id] = <<"execute_trader">>

\* C11: a close decision that passes the gate, when no position is open on
\* its coin, submits no order, returns success with quantity 0 and price 0,
\* and saves one Trade row with side 'close'.
C11_CloseWithoutPosition ==
    (/\ Done
     /\ inv.decision.decision = "close"
     /\ ~Gated
     /\ ~RaisedAt({"get_positions"})
     /\ calls # <<>>
     /\ calls[1].pos_before[inv.decision.coin] = 0)
        => /\ TradeCalls = <<>>
           /\ result.success
           /\ result.quantity = 0
           /\ result.price = 0
           /\ inv.save_trade => (Len(saved) = 1 /\ saved[1].side = "close")

CallsOf(op) == SelectSeq(calls, LAMBDA c : c.op = op)

\* the percentage the claim expects: the agent's when set, else the
\* decision's
ExpectedPct(user_pct, decision_pct) ==
    IF user_pct # NoneF THEN user_pct ELSE decision_pct

\* C12: after a successful long/short trade the stop-loss (take-profit)
\* trigger is computed from the agent's percentage when the agent has one,
\* from the decision's only when the agent's is unset; when neither is set
\* no order of that kind is placed and the row's field for it is null.
C12_AgentSettingsTakePrecedence ==
    (/\ Done
     /\ inv.decision.decision \in {"long", "short"}
     /\ result.success /\ result.price > 0)
        => LET d == inv.decision
               is_long == d.decision = "long"
               sl == ExpectedPct(inv.user_stop_loss_pct, d.stop_loss_pct)
               tp == ExpectedPct(inv.user_take_profit_pct, d.take_profit_pct)
               sl_calls == CallsOf("place_stop_loss")
               tp_calls == CallsOf("place_take_profit")
           IN /\ IF sl = NoneF
                 THEN /\ sl_calls = <<>>
                      /\ inv.save_trade => saved[1].stop_loss_order = NoneD
                 ELSE /\ Len(sl_calls) = 1
                      /\ sl_calls[1].trigger =
                            IF is_long THEN (result.price * (1000 - sl)) \div 1000
                            ELSE (result.price * (1000 + sl)) \div 1000
              /\ IF tp = NoneF
                 THEN /\ tp_calls = <<>>
                      /\ inv.save_trade => saved[1].take_profit_order = NoneD
                 ELSE /\ Len(tp_calls) = 1
                      /\ tp_calls[1].trigger =
                            IF is_long THEN (result.price * (1000 + tp)) \div 1000
                            ELSE (result.price * (1000 - tp)) \div 1000

C12_Witness ==
    /\ Done
    /\ inv.save_trade
    /\ inv.decision.decision = "long"
    /\ inv.user_stop_loss_pct = 100
    /\ inv.decision.stop_loss_pct = 50
    /\ inv.user_take_profit_pct = NoneF
    /\ inv.decision.take_profit_pct = 50
    /\ Len(CallsOf("place_stop_loss")) = 1
    /\ CallsOf("place_stop_loss")[1].trigger = 90
    /\ Len(CallsOf("place_take_profit")) = 1
    /\ CallsOf("place_take_profit")[1].trigger = 105
    /\ saved[1].stop_loss_order.percentage = 100

InRange(x, lo, hi) == x # NaN /\ lo <= x /\ x <= hi

OptionalInRange(x, lo, hi) == x = NoneF \/ InRange(x, lo, hi)

\* C13: every Decision call_llm_api returns for a model output that parses
\* as JSON has an action among long, short, hold, close (any other value
\* became hold), an uncertainty in [0,1] (1.7 became 1.0, -0.3 became 0.0),
\* a quantity >= 0, and every optional numeric field present inside its
\* range.
C13_DecisionInvariant ==
    (parsed # NoneD /\ parsed.ok) =>
        LET d == parsed.decision
        IN /\ d.decision \in Actions
           /\ content.decision = Str("buy") => d.decision = "hold"
           /\ InRange(d.uncertainty, 0, 1000)
           /\ content.uncertainty = Num(1700) => d.uncertainty = 1000
           /\ content.uncertainty = Num(-300) => d.uncertainty = 0
           /\ d.quantity # NaN /\ d.quantity >= 0
           /\ OptionalInRange(d.position_pct, 0, 1000)
           /\ OptionalInRange(d.leverage, 1, 50)
           /\ OptionalInRange(d.stop_loss_pct, 1, 500)
           /\ OptionalInRange(d.take_profit_pct, 1, 2000)

\* the same with the quantities float() turns into numbers that order
FiniteQuantityDecisionInvariant ==
    (parsed # NoneD /\ parsed.ok /\ content.quantity # Num(NaN))
        => C13_DecisionInvariant

TraderDone == tpc = "done"

LLMCalls == SelectSeq(net, LAMBDA c : c.op = "call_llm_api")

LLMFailed == LLMCalls # <<>> /\ LLMCalls[1].outcome # "ok"

\* the agent's configuration stops execute_trader before its first call
ConfigProblem ==
    /\ trader # NoneD
    /\ \/ trader.prompt_template = ""
       \/ trader.tickers = <<>>
       \/ trader.connection \in {"none", "hyperliquid_no_key", "unsupported"}

\* C14: every call_llm_api invocation of the pipeline writes exactly one
\* APICallLog row, whether the model returned valid JSON, a non-JSON
\* response, or the call could not be made or failed in transport: with
\* success and the decision fields on success, with success=false and the
\* error message on failure.
C14_OneLogRowPerCall ==
    LLMCalls # <<>> =>
        /\ Len(api_logs) = 1
        /\ IF LLMCalls[1].outcome = "ok"
           THEN /\ api_logs[1].success
                /\ api_logs[1].decision_coin = parsed.decision.coin
                /\ api_logs[1].decision_action = parsed.decision.decision
                /\ api_logs[1].decision_uncertainty = parsed.decision.uncertainty
                /\ api_logs[1].decision_quantity = parsed.decision.quantity
           ELSE /\ api_logs[1].success = FALSE
                /\ api_logs[1].error_message # None

\* C15: when the model call fails, execute_trader returns {success: false,
\* error}, never calls the Trade Executor, makes no order, places or cancels
\* no trigger order, and writes no Trade row.
C15_NoDecisionNoTrade ==
    LLMFailed =>
        /\ tpc = "done"
        /\ tresult = TraderFailure(LLMErrorText(LLMCalls[1].outcome))
        /\ tresult.success = FALSE
        /\ pc = "idle"
        /\ calls = <<>>
        /\ saved = <<>>

C15_Witness ==
    /\ TraderDone
    /\ LLMCalls # <<>>
    /\ LLMCalls[1].outcome = "nonjson"
    /\ tresult.error = "Invalid LLM response format"
    /\ Len(api_logs) = 1

\* C16: without a prompt template, tickers, a connected broker connection or
\* a broker that can be created, execute_trader returns {success: false,
\* error} before any market-data, model or exchange call, and writes no
\* Trade row and no APICallLog row.
C16_ConfigErrorsFailFast ==
    ConfigProblem =>
        /\ tpc = "done"
        /\ tresult.success = FALSE
        /\ tresult.error \in {"No prompt template", "No tickers configured",
                              "No broker connection", "Failed to create broker"}
        /\ net = <<>>
        /\ calls = <<>>
        /\ pc = "idle"
        /\ saved = <<>>
        /\ api_logs = <<>>

C16_Witness ==
    /\ TraderDone
    /\ trader.prompt_template # ""
    /\ trader.tickers # <<>>
    /\ trader.connection = "none"
    /\ tresult = TraderFailure("No broker connection")

\* C17: execute_trader returns a result dictionary for every outcome and
\* never raises: a failure of context formatting, of the model call or of a
\* broker call comes back as {success: false, error} or as a failed
\* trade_result inside a returned result.
C17_NeverRaises ==
    TraderDone =>
        /\ tresult # NoneD
        /\ tresult # TraderRaised
        /\ \/ /\ tresult.success = FALSE
              /\ tresult.error # None
           \/ /\ tresult.success
              /\ tresult.trade_result # NoResult
              /\ tresult.trade_result.success = FALSE
                    => tresult.trade_result.error # None
        /\ (RaisedAt({"get_positions", "execute_trade"}) /\ tresult.success)
              => tresult.trade_result.success = FALSE

C17_Witness ==
    /\ TraderDone
    /\ RaisedAt({"execute_trade"})
    /\ tresult.success
    /\ tresult.trade_result.success = FALSE

\* C18: every execute_trader invocation produces a Trade row recording the
\* tick and why no action or only a partial action occurred.
C18_EveryTickHasTradeRow ==
    TraderDone => Len(saved) = 1

ActiveJobIds == {get_job_id(id) : id \in {x \in AgentIds : exists[x] /\ active[x]}}

JobIds(J) == {j.id : j \in J}

\* C19: after sync_active_traders completes with no concurrent change the
\* trader jobs are exactly the agents with active=true: every active agent
\* that lacked a job has one, every job of an inactive or missing agent is
\* gone, and a second sync changes nothing.
C19_SyncReconciles ==
    (last_op # NoneD /\ last_op.op = "sync") =>
        /\ JobIds(jobs) = ActiveJobIds
        /\ \A id \in AgentIds : Cardinality(JobsOf(id)) <= 1
        /\ \A j \in last_op.before : j.id \in ActiveJobIds => j \in jobs
        /\ sync_active_traders(jobs, exists, active, frequency) = jobs

C19_Witness ==
    /\ last_op # NoneD
    /\ last_op.op = "sync"
    /\ \E id \in AgentIds :
          /\ exists[id] /\ active[id]
          /\ get_job_id(id) \notin JobIds(last_op.before)
          /\ HasJob(id)
    /\ \E id \in AgentIds :
          /\ ~active[id]
          /\ get_job_id(id) \in JobIds(last_op.before)
          /\ ~HasJob(id)

\* C20: a scheduled tick whose agent no longer exists or is inactive removes
\* the agent's job and returns without executing the trader (no model or
\* broker call, no Trade or APICallLog row); after it no job for that agent
\* id remains.
C20_StaleTickRemovesJob ==
    [][\A id \in AgentIds :
          (/\ running[id] # <<>>
           /\ running[id][1] = "query"
           /\ ~(exists[id] /\ active[id])
           /\ running'[id] # running[id])
              => /\ running'[id] = <<>>
                 /\ \A j \in jobs' : j.id # get_job_id(id)
                 /\ UNCHANGED <<net, calls, saved, api_logs, tpc, pc>>]_vars

C20_Witness ==
    /\ last_op # NoneD
    /\ last_op.op = "tick_exit"
    /\ get_job_id(last_op.trader_id) \in JobIds(last_op.before)
    /\ exists[last_op.trader_id]
    /\ ~active[last_op.trader_id]
    /\ ~HasJob(last_op.trader_id)
    /\ running[last_op.trader_id] = <<>>

\* C21: add_trader with a valid frequency for an agent that already has a
\* job leaves exactly one job for that agent, the new one, and the jobs of the
\* other agents as they were; remove_trader for an agent without a job
\* returns True and leaves the job store unchanged.
C21_IdempotentToggling ==
    /\ \A id \in AgentIds, f \in FrequencyInputs :
          (HasJob(id) /\ is_valid_frequency(f)) =>
             LET J == add_trader(jobs, id, f)
             IN /\ {j \in J : j.id = get_job_id(id)} =
                      {[id |-> get_job_id(id),
                        interval |-> FREQUENCY_CONFIG[lower(f)],
                        max_instances |-> 1]}
                /\ {j \in J : j.id # get_job_id(id)} =
                      {j \in jobs : j.id # get_job_id(id)}
                /\ add_trader_result(jobs, id, f)
    /\ \A id \in AgentIds :
          ~HasJob(id) => /\ remove_trader(jobs, id) = jobs
                         /\ remove_trader_result(jobs, id)
    /\ (last_op # NoneD /\ last_op.op = "add_trader again" /\ last_op.returned) =>
          Cardinality(JobsOf(last_op.trader_id)) = 1
    /\ (last_op # NoneD /\ last_op.op = "remove_trader again") =>
          last_op.returned /\ ~HasJob(last_op.trader_id)

\* an already scheduled agent has just been activated again
C21_Witness ==
    /\ last_op # NoneD
    /\ last_op.op = "add_trader again"
    /\ last_op.returned
    /\ Cardinality(JobsOf(last_op.trader_id)) = 1

\* C28: trigger_trader_now is not held back by a running scheduled tick: a
\* manual run of an existing agent starts whenever a request thread is free,
\* also while a scheduled tick of the same agent is executing.
C28_ManualRunNotDeduplicated ==
    \A id \in AgentIds :
       (exists[id] /\ FreeThread # 0) =>
          ENABLED TriggerTraderNow(FreeThread, id, TRUE)

\* a manual run and a scheduled tick of one agent are both in execute_trader
C28_Witness ==
    \E id \in AgentIds, r \in Requests :
       /\ rpc[r] = "execute_trader"
       /\ rarg[r].model_id = id
       /\ \E i \in 1..Len(running[id]) : running[id][i] = "execute_trader"

\* C22: through the Hyperliquid adapter no broker operation of the pipeline
\* (execute_trade, get_positions, get_balance, place_stop_loss,
\* place_take_profit, cancel_trigger_orders) raises, whatever the exchange
\* does with the request: every failure reaches the pipeline as a value.
C22_AdapterNeverRaises ==
    /\ ~raised
    /\ \A i \in 1..Len(calls) : calls[i].outcome \in {"ok", "fail", "error",
                                                        "unlisted", "rejected"}
    /\ \A i \in 1..Len(net) : net[i].outcome \in {"ok", "error"}
    /\ tresult # TraderRaised

\* a failed balance request and a failed order both came back as values
C22_Witness ==
    /\ tpc = "done"
    /\ \E i \in 1..Len(net) : net[i].op = "get_balance" /\ net[i].outcome = "error"
    /\ \E i \in 1..Len(calls) :
          calls[i].op = "execute_trade" /\ calls[i].outcome = "fail"
    /\ tresult.success
    /\ ~tresult.trade_result.success

\* C23: when the balance request to the broker fails during a tick, the
\* three balance figures of the prompt are computed from the agent's stored
\* balance, and the tick goes on to the model call.
C23_StoredBalanceOnFailure ==
    (account_data # NoneD
       /\ \E i \in 1..Len(net) : net[i].op = "get_balance" /\ net[i].outcome # "ok")
    => /\ account_data = AccountData(trader.balance, trader.start_balance)
       /\ tpc # "account_data"

\* C29: the trigger orders an execution removes from the exchange are those
\* its own agent placed, never those of another agent.
C29_AgentsDoNotTouchEachOthersOrders ==
    [][\A o \in triggers \ triggers' : trader # NoneD /\ o.placed_by = trader.id]_vars

\* C30: between ticks, after successful long/short executions whose
\* cancel_trigger_orders calls all returned success, every symbol has at most
\* one open stop-loss order and at most one open take-profit order.
C30_OneStopLossOneTakeProfit ==
    (tpc = "idle" /\ cancels_ok /\ longshort_ok) =>
       \A c \in Coins, k \in {"sl", "tp"} :
          Cardinality({o \in triggers : o.coin = c /\ o.kind = k}) <= 1

\* C24: at most one broker_connections row exists per user and exchange,
\* also after two create_connection requests of one user that overlap.
C24_OneConnectionPerUserAndExchange ==
    \A u \in Users :
       Cardinality({i \in 1..Len(conns) : conns[i].user_id = u
                                          /\ conns[i].exchange = "hyperliquid"}) <= 1

\* C25: after test_connection_endpoint has probed a stored connection while
\* the exchange was unreachable or rejected the request, the row has status
\* 'error' and is not connected.
C25_FailedProbeSetsError ==
    (last_op # NoneD /\ last_op.op = "test_connection"
       /\ last_op.upstream # "ok")
    => /\ conns[last_op.connection_id].connection_status = "error"
       /\ ~conns[last_op.connection_id].is_connected

\* C26: every tick that has passed the configuration checks returns a result.
C26_EveryTickReturns ==
    (tpc = "market_data") ~> (tpc = "done")

\* C27: an activation request answered with 400 or 404 leaves every script
\* as it was, and a request that changes a flag is the owner's, carries
\* 'active', and changes the flag of the named script only.
C27_RejectedActivationChangesNothing ==
    (last_op # NoneD /\ last_op.op = "activate_script") =>
       LET b == last_op.before
           i == last_op.script_id
       IN /\ last_op.status # 200 => scripts = b
          /\ (i \in ScriptIds /\ b[i] # NoneD /\ b[i].user_id # last_op.user_id)
                => last_op.status \in {400, 404}
          /\ (i \notin ScriptIds \/ b[i] = NoneD) => last_op.status \in {400, 404}
          /\ ~last_op.body.has_active => last_op.status = 400
          /\ scripts # b =>
                /\ last_op.body.has_active
                /\ b[i].user_id = last_op.user_id
                /\ \A j \in ScriptIds \ {i} : scripts[j] = b[j]
                /\ scripts[i] = [b[i] EXCEPT !.active = last_op.body.active]

\* another user's request to deactivate an active script was answered 404
C27_Witness ==
    /\ last_op # NoneD
    /\ last_op.op = "activate_script"
    /\ last_op.status = 404
    /\ last_op.script_id \in ScriptIds
    /\ last_op.before[last_op.script_id] # NoneD
    /\ last_op.before[last_op.script_id].user_id # last_op.user_id
    /\ last_op.before[last_op.script_id].active
    /\ ~last_op.body.active
    /\ scripts[last_op.script_id].active

\* C31: every trigger order the adapter submits for a positive current price
\* and a positive requested trigger has its trigger price strictly on the
\* protective side of the current price: a stop loss below it for a long and
\* above it for a short, a take profit above it for a long and below it for
\* a short.
C31_TriggerOnCorrectSide ==
    (/\ last_op # NoneD
     /\ last_op.op \in {"place_stop_loss", "place_take_profit"}
     /\ last_op.current_price > 0
     /\ last_op.trigger_price > 0
     /\ last_op.request.submitted)
    => LET below == (last_op.op = "place_stop_loss") = last_op.is_long
       IN IF below
          THEN last_op.request.triggerPx < last_op.current_price
          ELSE last_op.request.triggerPx > last_op.current_price

\* C32: an execute_trade request of at least the minimum size is submitted
\* with a size that is a multiple of the size step and not greater than the
\* requested one.
C32_SizeRoundedDown ==
    (/\ last_op # NoneD
     /\ last_op.op = "execute_trade"
     /\ last_op.quantity >= get_min_size(last_op.coin)
     /\ last_op.request.submitted)
    => /\ last_op.request.sz % SizeStep = 0
       /\ last_op.request.sz <= last_op.quantity

\* C33: an execute_trade request below the minimum size, a size rounding to
\* zero included, is submitted whenever the current price is known, with
\* exactly the minimum size, and succeeds when the exchange accepts it.
C33_BelowMinimumRaised ==
    (/\ last_op # NoneD
     /\ last_op.op = "execute_trade"
     /\ last_op.quantity < get_min_size(last_op.coin)
     /\ last_op.current_price > 0)
    => /\ last_op.request.submitted
       /\ last_op.request.sz = get_min_size(last_op.coin)

\* a request whose size rounds to zero has been submitted
C33_Witness ==
    /\ last_op # NoneD
    /\ last_op.op = "execute_trade"
    /\ py_round(last_op.quantity, SizeStep) = 0
    /\ last_op.quantity > 0
    /\ last_op.request.submitted
    /\ last_op.request.success

\* C34: a call_llm_api invocation makes at most one chat completion request
\* and ends in exactly one way: the decision is returned and the pipeline
\* goes on to execute_trade, or an error is raised (the response is not
\* JSON or fails validation, the request failed, or no client is
\* configured and no request was made) and execute_trader returns its
\* failure; the call is not made a second time.
C34_OneRequestOneOutcome ==
    /\ Len(LLMCalls) <= 1
    /\ LLMCalls # <<>> =>
          LET o == LLMCalls[1].outcome
          IN /\ o \in {"ok", "nonjson", "invalid", "transport", "no_client"}
             /\ (o = "ok") = (parsed # NoneD /\ parsed.ok)
             /\ IF o = "ok"
                THEN /\ tpc \in {"execute_trade", "done"}
                     /\ tpc = "done" =>
                           tresult \in {TraderSuccess(parsed.decision, result),
                                        TraderFailure("exception in execute_trade")}
                ELSE /\ tpc = "done"
                     /\ tresult = TraderFailure(LLMErrorText(o))
                     /\ calls = <<>>

\* a request failed in transport and execute_trader has returned
C34_Witness ==
    /\ Len(LLMCalls) = 1
    /\ LLMCalls[1].outcome = "transport"
    /\ tpc = "done"
    /\ tresult = TraderFailure(LLMErrorText("transport"))

\* C35: an agent whose uncertainty_threshold is 0.0 submits no order to the
\* exchange, whatever decision the model returns.
C35_ZeroThresholdNeverTrades ==
    (trader # NoneD /\ trader.uncertainty_threshold = 0)
    => \A i \in 1..Len(calls) :
          calls[i].op \notin {"execute_trade", "place_stop_loss",
                              "place_take_profit"}

\* the long/short order of this invocation that the exchange filled
FilledPrimary(i) ==
    /\ inv # NoneD
    /\ inv.decision.decision \in {"long", "short"}
    /\ i \in 1..Len(calls)
    /\ calls[i].op = "execute_trade"
    /\ calls[i].outcome \in {"ok", "ok0"}

\* the size that order added to the position
Opened(i) ==
    Abs(position[inv.decision.coin] - calls[i].pos_before[inv.decision.coin])

\* the size of the trigger order the adapter submits for a quantity
TriggerSize(quantity) == py_round(quantity, SizeStep)

\* the adapter changed the size of the primary order
Adjusted(d) == order_size(d.coin, d.quantity) # d.quantity

\* C36 as stated: after a filled long/short whose size the adapter rounded or
\* raised to the minimum, the trigger orders and the Trade row carry a
\* quantity different from the size of the opened position.
C36_ProtectiveQuantityDiffers ==
    \A i \in 1..Len(calls) :
       (FilledPrimary(i) /\ Adjusted(inv.decision)) =>
          /\ \A j \in 1..Len(calls) :
                calls[j].op \in {"place_stop_loss", "place_take_profit"} =>
                   TriggerSize(calls[j].quantity) # Opened(i)
          /\ \A k \in 1..Len(saved) : saved[k].quantity # Opened(i)

\* C36 amended: after a filled long/short, place_stop_loss and
\* place_take_profit are called with decision.quantity and the Trade row
\* carries decision.quantity, while the position was opened with the size
\* the adapter submitted. When the adapter changed the size the Trade row
\* differs from the opened position; the trigger orders differ from it when
\* the size was raised to the minimum, and have the size of the position
\* when it was only rounded, for the adapter rounds their quantity the same
\* way.
C36_ProtectiveQuantityIsDecisionQuantity ==
    \A i \in 1..Len(calls) :
       FilledPrimary(i) =>
          LET d == inv.decision
              to_min == py_round(d.quantity, SizeStep) < get_min_size(d.coin)
          IN /\ calls[i].quantity = d.quantity
             /\ Opened(i) = order_size(d.coin, d.quantity)
             /\ \A j \in 1..Len(calls) :
                   calls[j].op \in {"place_stop_loss", "place_take_profit"} =>
                      /\ calls[j].quantity = d.quantity
                      /\ to_min = (TriggerSize(calls[j].quantity) # Opened(i))
             /\ \A k \in 1..Len(saved) :
                   /\ saved[k].quantity = d.quantity
                   /\ Adjusted(d) = (saved[k].quantity # Opened(i))

\* a decision without a quantity opened a position of the minimum size, its
\* stop loss was requested and its Trade row written
C36_Witness ==
    \E i \in 1..Len(calls) :
       /\ FilledPrimary(i)
       /\ inv.decision.quantity = 0
       /\ Opened(i) = get_min_size(inv.decision.coin)
       /\ \E j \in 1..Len(calls) : calls[j].op = "place_stop_loss"
       /\ Len(saved) = 1
       /\ saved[1].success

C38_FailedAddRemovesJob ==
    (/\ last_op # NoneD
     /\ last_op.op = "add_trader"
     /\ parse_frequency(last_op.trading_frequency) = NoneF)
    => /\ ~last_op.returned
       /\ ~HasJob(last_op.trader_id)
       /\ jobs = {j \in last_op.before : j.id # get_job_id(last_op.trader_id)}

\* a scheduled agent has lost its job in a failed add_trader
C38_Witness ==
    /\ last_op # NoneD
    /\ last_op.op = "add_trader"
    /\ ~last_op.returned
    /\ get_job_id(last_op.trader_id) \in JobIds(last_op.before)
    /\ ~HasJob(last_op.trader_id)

\* C39: a tick of an agent whose start_balance is 0 never reaches the model
\* call: it ends with {success: False, error}, at the latest when the account
\* data is formatted (division by start_balance), without an order, a Trade
\* row or an APICallLog row.
C39_ZeroStartBalanceFails ==
    (trader # NoneD /\ trader.start_balance = 0)
    => /\ tpc \in {"market_data", "account_data", "done"}
       /\ LLMCalls = <<>>
       /\ calls = <<>>
       /\ saved = <<>>
       /\ api_logs = <<>>
       /\ account_data = NoneD
       /\ tpc = "done" =>
             /\ ~tresult.success
             /\ tresult.error = IF config_error(trader) # None
                                THEN config_error(trader)
                                ELSE "float division by zero"

\* a configured agent with start_balance 0 has read its balance and failed
C39_Witness ==
    /\ trader # NoneD
    /\ trader.start_balance = 0
    /\ config_error(trader) = None
    /\ tpc = "done"
    /\ \E i \in 1..Len(net) : net[i].op = "get_balance"
    /\ tresult = TraderFailure("float division by zero")

\* C40: no step of a close execution changes the account's open trigger
\* orders, and the only broker calls it makes are get_positions and
\* execute_trade: the stop-loss and take-profit orders open before the close
\* are open after it.
C40_CloseLeavesTriggerOrders ==
    [][(inv # NoneD /\ inv.decision.decision = "close" /\ inv' = inv)
       => /\ triggers' = triggers
          /\ \A i \in 1..Len(calls') :
                calls'[i].op \in {"get_positions", "execute_trade"}]_vars

\* a close has flattened a position whose take profit is still open
C40_Witness ==
    /\ inv # NoneD
    /\ inv.decision.decision = "close"
    /\ pc = "done"
    /\ position_to_close # NoneD
    /\ result.success
    /\ position[inv.decision.coin] = 0
    /\ \E t \in triggers : t.coin = inv.decision.coin /\ t.kind = "tp"

====
